---- MODULE Spec2Model ----
(***************************************************************************)
(* ToDoTracker: the todo hierarchy (TodoService), completion state,        *)
(* cascading deletes (Todo / Category / Attachment relationships), the     *)
(* request transaction boundary (get_db), attachment files (FileService),  *)
(* the priority cache (AsyncCache, PriorityService), API key               *)
(* authentication, tags, partial updates and listing, as state machines.   *)
(*                                                                         *)
(* Ids are uuid4 strings in the program; here every table draws its ids    *)
(* from a counter that never reuses a value.  None is Null (0).            *)
(***************************************************************************)
EXTENDS Integers, FiniteSets, Sequences, TLC

VARIABLES
    todos,        \* todos table: id -> [title, description, due_date, priority, completed,
                  \* completed_at, parent_id, category_id, tags, updated_at]
    categories,   \* categories table: set of category ids
    attachments,  \* attachments table: id -> [todo_id, filename, original_name,
                  \* mime_type, size_bytes]
    files,        \* the files in attachments_dir: name -> content
    next_id,      \* [todo, cat, att]: the next fresh id of each table
    now,          \* the wall clock read by datetime.now
    last,         \* what the last service call was given and what it returned
    pc,           \* concurrent requests: where each request is in TodoService.update
    req,          \* concurrent requests: [todo_id, raw] of each request
    sess,         \* concurrent requests: each session's loaded / pending row and outcome
    writer,       \* concurrent requests: the session holding the database write lock
    sent,         \* attachment id -> the upload it was stored from (history)
    priorities,   \* priority_levels table: [rows, committed, flushed]: the committed rows
                  \* (level -> name), the number of the committed content, and the
                  \* number a transaction has flushed
    cache,        \* priority_cache: [data, expires_at]
    lock,         \* priority_cache._lock: the task inside the exclusive section
    task,         \* the tasks that use the priority cache: where each one is
    tags,         \* tags table: set of tag ids
    settings,     \* Settings: [api_key, is_homeassistant]
    http          \* the last request to a route under /api and the status it was answered with

vars == <<todos, categories, attachments, files, next_id, now, last, pc, req, sess, writer,
          sent, priorities, cache, lock, task, tags, settings, http>>

Null == 0
Unset == -1

\* A table without rows
EmptyTable == [i \in {} |-> Null]

\* Settings.max_subtask_depth
max_subtask_depth == 5

\* Bounds of the model
MaxTodos == 4
MaxExtraTodos == 2
MaxCompletionTodos == 2
MaxClock == 2
MaxCascadeTodos == 3
MaxCats == 1
MaxAtts == 2
MaxConcTodos == 3

TodoIds == 1..MaxTodos

\* The ids of the deep hierarchy: a chain of max_subtask_depth todos and the extra ones
DeepIds == 1..(max_subtask_depth + MaxExtraTodos)

-----------------------------------------------------------------------------
(* Hierarchy validation: pure queries over a todos table T                 *)

CycleDetected == -1

\* The while loop of _get_parent_depth; CycleDetected stands for the raise
RECURSIVE ParentDepthWalk(_, _, _, _)
ParentDepthWalk(T, current_id, depth, iterations) ==
    IF current_id \notin DOMAIN T THEN depth
    ELSE IF T[current_id].parent_id = Null THEN depth
    ELSE IF iterations + 1 > max_subtask_depth + 10 THEN CycleDetected
    ELSE ParentDepthWalk(T, T[current_id].parent_id, depth + 1, iterations + 1)

_get_parent_depth_from_one(T, parent_id) == ParentDepthWalk(T, parent_id, 1, 0)

_get_parent_depth(T, parent_id) == ParentDepthWalk(T, parent_id, 0, 0)

\* The while loop of _get_all_descendant_ids
RECURSIVE DescendantWalk(_, _, _)
DescendantWalk(T, to_visit, descendants) ==
    IF to_visit = {} THEN descendants
    ELSE LET current_id == CHOOSE x \in to_visit : TRUE
             children == {i \in DOMAIN T : T[i].parent_id = current_id}
             fresh == children \ descendants
         IN DescendantWalk(T, (to_visit \ {current_id}) \cup fresh, descendants \cup fresh)

_get_all_descendant_ids(T, todo_id) == DescendantWalk(T, {todo_id}, {})

UpwardWalk_one_step(T, current_id, visited) ==
    IF current_id = Null THEN FALSE
    ELSE current_id \in visited

\* The upward while loop of _would_create_cycle
RECURSIVE UpwardWalk(_, _, _)
UpwardWalk(T, current_id, visited) ==
    IF current_id = Null THEN FALSE
    ELSE IF current_id \in visited THEN TRUE
    ELSE IF current_id \notin DOMAIN T THEN FALSE
    ELSE UpwardWalk(T, T[current_id].parent_id, visited \cup {current_id})

_would_create_cycle(T, todo_id, new_parent_id) ==
    IF todo_id = new_parent_id THEN TRUE
    ELSE IF UpwardWalk(T, new_parent_id, {todo_id}) THEN TRUE
    ELSE new_parent_id \in _get_all_descendant_ids(T, todo_id)

DepthLimitExceededLoose(new_depth) == new_depth > max_subtask_depth + 1
DepthLimitExceededStrict(new_depth) == new_depth >= max_subtask_depth

\* The depth test of _validate_parent
DepthLimitExceeded(new_depth) == new_depth > max_subtask_depth

\* _validate_parent: "ok", or the TodoValidationError it raises
_validate_parent(T, parent_id, todo_id) ==
    IF parent_id = Null THEN "ok"
    ELSE IF parent_id \notin DOMAIN T THEN "parent_not_found"
    ELSE IF todo_id # Null /\ _would_create_cycle(T, todo_id, parent_id) THEN "circular"
    ELSE LET parent_depth == _get_parent_depth(T, parent_id)
         IN IF parent_depth = CycleDetected THEN "cycle_detected"
            ELSE IF DepthLimitExceeded(parent_depth + 1) THEN "depth_exceeded"
            ELSE "ok"

-----------------------------------------------------------------------------
(* Rows and ORM cascades                                                   *)

\* A str | None column holds NoStr for None
NoStr == "None"

\* tag_ids: null in a request body, as a set that no set of tag ids equals
NoTagIds == {Unset}

\* Todo(...) as TodoService.create builds it, flushed at time t: the column defaults
\* of models/todo.py
TodoAt(data, t) ==
    [title |-> data.title, description |-> data.description, due_date |-> data.due_date,
     priority |-> data.priority, completed |-> FALSE, completed_at |-> Null,
     parent_id |-> data.parent_id, category_id |-> data.category_id,
     tags |-> data.tag_ids, updated_at |-> t]

NewTodo(data) == TodoAt(data, now)

mark_complete_stale(todo) == [todo EXCEPT !.completed = TRUE]

\* Todo.mark_complete
Todo_mark_complete(todo) == [todo EXCEPT !.completed = TRUE, !.completed_at = now]

\* Todo.mark_incomplete
Todo_mark_incomplete(todo) == [todo EXCEPT !.completed = FALSE, !.completed_at = Null]

SubtasksCascadeNone(T, roots) == roots
SubtasksCascadeOneLevel(T, roots) == roots \cup {i \in DOMAIN T : T[i].parent_id \in roots}

\* Session.delete following Todo.subtasks (cascade="all, delete-orphan"), level by level
RECURSIVE SubtasksCascade(_, _)
SubtasksCascade(T, roots) ==
    LET subtasks == {i \in DOMAIN T : T[i].parent_id \in roots}
    IN IF subtasks \subseteq roots THEN roots
       ELSE SubtasksCascade(T, roots \cup subtasks)

\* Session.delete following Todo.attachments (cascade="all, delete-orphan")
AttachmentsCascade(A, deleted_todos) ==
    [a \in {x \in DOMAIN A : A[x].todo_id \notin deleted_todos} |-> A[a]]

\* Session.delete following Category.todos (cascade="all, delete-orphan")
CategoryTodosCascade(T, category_id) ==
    {i \in DOMAIN T : T[i].category_id = category_id}

Restrict(T, gone) == [i \in DOMAIN T \ gone |-> T[i]]

-----------------------------------------------------------------------------
(* Request bodies                                                          *)

\* The fields TodoUpdate declares (schemas/todo.py)
TodoUpdateFields ==
    {"title", "description", "due_date", "priority", "category_id", "tag_ids", "completed"}

\* TodoUpdate(**raw): pydantic keeps the declared fields and ignores the others
TodoUpdate(raw) == [raw EXCEPT !.fields = raw.fields \cap TodoUpdateFields]

\* data.model_dump(exclude_unset=True): the keys that were given
model_dump_keys(data) == data.fields

\* Python truth of a completed value (true, false or null)
Truthy(v) == v = "true"

\* A request body that gives no field
NoPatch ==
    [fields |-> {}, title |-> NoStr, description |-> NoStr, due_date |-> Null,
     priority |-> Null, parent_id |-> Null, completed |-> "null", category_id |-> Null,
     tag_ids |-> NoTagIds]

\* The keyword arguments of TodoService.get_all, at their defaults
NoQuery ==
    [category_id |-> Null, tag_id |-> Null, priority_min |-> Null, priority_max |-> Null,
     completed |-> "null", due_before |-> Null, due_after |-> Null, parent_id |-> Null,
     page |-> 1, page_size |-> 50]

\* What a call that is given no file and returns none carries
NoData ==
    [content |-> [head |-> <<>>, size |-> 0], mime_type |-> "", status |-> 0,
     upload |-> [name |-> "", content |-> [head |-> <<>>, size |-> 0], mime_type |-> ""],
     content_length |-> Null, missing_ids |-> {}, query |-> NoQuery, items |-> <<>>,
     total |-> 0]

\* A service call: the operation, the id it was about (or created), the parent it
\* was given, the request body of an update, how it ended, the parent_id of the todo
\* it returned, the todo and attachment rows its session deleted, and (attachment
\* calls) the file, the content type and the status of its answer, the upload and the
\* Content-Length it was given, the tag ids a TodoValidationError lists, and the
\* arguments of a get_all with the page and the total it returned
Call(op, id, arg, raw, outcome, ret, gone_todos, gone_atts) ==
    [op |-> op, id |-> id, arg |-> arg, raw |-> raw, outcome |-> outcome, ret |-> ret,
     gone_todos |-> gone_todos, gone_atts |-> gone_atts, data |-> NoData]

Ret(op, id, arg, outcome, ret) == Call(op, id, arg, NoPatch, outcome, ret, {}, {})

Deleted(op, id, gone_todos, gone_atts) ==
    Call(op, id, Unset, NoPatch, "ok", Unset, gone_todos, gone_atts)

\* The body of a TodoCreate, as a request body: every field is given
AsGiven(data) ==
    [k \in DOMAIN NoPatch |->
        IF k = "fields" THEN DOMAIN data
        ELSE IF k \in DOMAIN data THEN data[k]
        ELSE NoPatch[k]]

\* TodoValidationError("Tag(s) not found: ..."): the call c ended with it
TagsNotFound(c, missing_ids) == [c EXCEPT !.data.missing_ids = missing_ids]

_validate_and_get_tags_unchecked(G, tag_ids) == {}

\* _validate_and_get_tags over the tags table G: the ids it misses (it raises when
\* there is one, else it returns the Tag rows of tag_ids)
_validate_and_get_tags(G, tag_ids) == tag_ids \ G

conc == <<pc, req, sess, writer>>

cachevars == <<priorities, cache, lock, task>>

aux == <<tags, settings, http>>

-----------------------------------------------------------------------------
(* TodoService, one request at a time (each action is a request that      *)
(* get_db commits, or rolls back when the service raised)                  *)

create_as(op, data) ==
    LET v == _validate_parent(todos, data.parent_id, Null)
        missing_ids == _validate_and_get_tags(tags, data.tag_ids)
        id == next_id.todo
    IN IF v # "ok"
       THEN /\ last' = Call(op, Null, data.parent_id, AsGiven(data), v, Unset, {}, {})
            /\ UNCHANGED <<todos, next_id>>
       ELSE IF missing_ids # {}
       THEN /\ last' = TagsNotFound(Call(op, Null, data.parent_id, AsGiven(data),
                                         "tags_not_found", Unset, {}, {}),
                                    missing_ids)
            /\ UNCHANGED <<todos, next_id>>
       ELSE /\ todos' = (id :> NewTodo(data)) @@ todos
            /\ next_id' = [next_id EXCEPT !.todo = id + 1]
            /\ last' = Call(op, id, data.parent_id, AsGiven(data), "ok", data.parent_id,
                            {}, {})

\* TodoService.create
create(data) ==
    /\ create_as("create", data)
    /\ UNCHANGED <<categories, attachments, files, now, conc, sent, cachevars, aux>>

\* TodoService.add_subtask
add_subtask(parent_id, data) ==
    /\ IF parent_id \notin DOMAIN todos
       THEN /\ last' = Ret("add_subtask", Null, parent_id, "not_found", Unset)
            /\ UNCHANGED <<todos, next_id>>
       ELSE create_as("add_subtask", [data EXCEPT !.parent_id = parent_id])
    /\ UNCHANGED <<categories, attachments, files, now, conc, sent, cachevars, aux>>

ApplyUpdate_replace(todo, data) ==
    [k \in DOMAIN todo |->
        CASE k \in {"title", "description", "due_date", "priority", "category_id"} -> data[k]
          [] k = "updated_at" -> now
          [] OTHER -> todo[k]]

\* The body of TodoService.update after the todo was loaded: the row to flush
ApplyUpdate(todo, data) ==
    LET keys == model_dump_keys(data)
        t0 == IF "tag_ids" \in keys /\ data.tag_ids # NoTagIds
              THEN [todo EXCEPT !.tags = data.tag_ids]
              ELSE todo
        t1 == IF "completed" \in keys
              THEN IF Truthy(data.completed) THEN Todo_mark_complete(t0)
                   ELSE Todo_mark_incomplete(t0)
              ELSE t0
        t2 == [k \in DOMAIN t1 |->
                IF k \in keys \ {"tag_ids", "completed"} THEN data[k] ELSE t1[k]]
    IN [t2 EXCEPT !.updated_at = now]

\* The tag check of TodoService.update: the ids that were not found
UpdateMissingTags(G, data) ==
    IF "tag_ids" \in model_dump_keys(data) /\ data.tag_ids # NoTagIds
    THEN _validate_and_get_tags(G, data.tag_ids)
    ELSE {}

\* The parent check of TodoService.update
ValidateUpdate(T, todo, todo_id, data) ==
    IF "parent_id" \in model_dump_keys(data) /\ data.parent_id # todo.parent_id
    THEN _validate_parent(T, data.parent_id, todo_id)
    ELSE "ok"

RequestedParent(raw) == IF "parent_id" \in raw.fields THEN raw.parent_id ELSE Unset

\* TodoService.update, given the request body raw
update(todo_id, raw) ==
    /\ IF todo_id \notin DOMAIN todos
       THEN /\ last' = Call("update", todo_id, RequestedParent(raw), raw, "not_found", Unset,
                            {}, {})
            /\ UNCHANGED todos
       ELSE LET data == TodoUpdate(raw)
                v == ValidateUpdate(todos, todos[todo_id], todo_id, data)
                missing_ids == UpdateMissingTags(tags, data)
                row == ApplyUpdate(todos[todo_id], data)
            IN IF v # "ok"
               THEN /\ last' = Call("update", todo_id, RequestedParent(raw), raw, v, Unset,
                                    {}, {})
                    /\ UNCHANGED todos
               ELSE IF missing_ids # {}
               THEN /\ last' = TagsNotFound(Call("update", todo_id, RequestedParent(raw), raw,
                                                 "tags_not_found", Unset, {}, {}),
                                            missing_ids)
                    /\ UNCHANGED todos
               ELSE /\ todos' = [todos EXCEPT ![todo_id] = row]
                    /\ last' = Call("update", todo_id, RequestedParent(raw), raw, "ok",
                                    row.parent_id, {}, {})
    /\ UNCHANGED <<categories, attachments, files, next_id, now, conc, sent, cachevars, aux>>

\* TodoService.mark_complete
mark_complete(todo_id) ==
    /\ IF todo_id \notin DOMAIN todos
       THEN /\ last' = Ret("mark_complete", todo_id, Unset, "not_found", Unset)
            /\ UNCHANGED todos
       ELSE /\ todos' = [todos EXCEPT ![todo_id] =
                            [Todo_mark_complete(todos[todo_id]) EXCEPT !.updated_at = now]]
            /\ last' = Ret("mark_complete", todo_id, Unset, "ok", todos[todo_id].parent_id)
    /\ UNCHANGED <<categories, attachments, files, next_id, now, conc, sent, cachevars, aux>>

\* TodoService.delete
delete(todo_id) ==
    /\ IF todo_id \notin DOMAIN todos
       THEN /\ last' = Ret("delete", todo_id, Unset, "not_found", Unset)
            /\ UNCHANGED <<todos, attachments>>
       ELSE LET gone == SubtasksCascade(todos, {todo_id})
            IN /\ todos' = Restrict(todos, gone)
               /\ attachments' = AttachmentsCascade(attachments, gone)
               /\ last' = Deleted("delete", todo_id, gone,
                                  DOMAIN attachments \ DOMAIN AttachmentsCascade(attachments, gone))
    /\ UNCHANGED <<categories, files, next_id, now, conc, sent, cachevars, aux>>

\* CategoryService.create
category_create ==
    /\ categories' = categories \cup {next_id.cat}
    /\ next_id' = [next_id EXCEPT !.cat = next_id.cat + 1]
    /\ last' = Ret("category_create", next_id.cat, Unset, "ok", Unset)
    /\ UNCHANGED <<todos, attachments, files, now, conc, sent, cachevars, aux>>

\* CategoryService.delete
category_delete(category_id) ==
    /\ IF category_id \notin categories
       THEN /\ last' = Ret("category_delete", category_id, Unset, "not_found", Unset)
            /\ UNCHANGED <<todos, categories, attachments>>
       ELSE LET gone == SubtasksCascade(todos, CategoryTodosCascade(todos, category_id))
            IN /\ categories' = categories \ {category_id}
               /\ todos' = Restrict(todos, gone)
               /\ attachments' = AttachmentsCascade(attachments, gone)
               /\ last' = Deleted("category_delete", category_id, gone,
                                  DOMAIN attachments \ DOMAIN AttachmentsCascade(attachments, gone))
    /\ UNCHANGED <<files, next_id, now, conc, sent, cachevars, aux>>

-----------------------------------------------------------------------------
(* FileService.  A byte buffer is [head, size]: its leading bytes and its  *)
(* length, every byte after head being zero.  An upload is [name, content, *)
(* mime_type]: the client's file name, the buffer, and the content type    *)
(* the client declared ("" when it declared none).                         *)

\* Settings.max_upload_size_bytes
max_upload_size_bytes == 10485760

\* Settings.allowed_file_extensions
allowed_file_extensions ==
    {".pdf", ".doc", ".docx", ".xls", ".xlsx", ".ppt", ".pptx", ".odt", ".ods", ".odp",
     ".txt", ".rtf", ".csv", ".jpg", ".jpeg", ".png", ".gif", ".bmp", ".webp", ".ico",
     ".zip", ".tar", ".gz", ".7z", ".rar", ".json", ".xml", ".yaml", ".yml", ".md",
     ".html", ".css"}

TEXT_EXTENSIONS ==
    {".txt", ".csv", ".json", ".xml", ".yaml", ".yml", ".md", ".html", ".css"}

\* file_content: bytes, as its first bytes and its length (the bytes after head are zero)
Buffer(head, size) == [head |-> head, size |-> size]

\* len(content)
len(content) == content.size

\* content[i], for 0 <= i < len(content)
ByteAt(content, i) == IF i < Len(content.head) THEN content.head[i + 1] ELSE 0

\* content[a:b]: a slice stops at the end of the buffer
Slice(content, a, b) ==
    LET stop == IF b < len(content) THEN b ELSE len(content)
    IN [i \in 1..(stop - a) |-> ByteAt(content, a + i - 1)]

\* content.startswith(sig)
startswith(content, sig) == Slice(content, 0, Len(sig)) = sig

OLE == <<208, 207, 17, 224, 161, 177, 26, 225>>

PK34 == <<80, 75, 3, 4>>

\* MAGIC_BYTES: the signatures of each extension, as byte values
MAGIC_BYTES ==
    (".jpg" :> << <<255, 216, 255>> >>) @@
    (".jpeg" :> << <<255, 216, 255>> >>) @@
    (".png" :> << <<137, 80, 78, 71, 13, 10, 26, 10>> >>) @@
    (".gif" :> << <<71, 73, 70, 56, 55, 97>>, <<71, 73, 70, 56, 57, 97>> >>) @@
    (".bmp" :> << <<66, 77>> >>) @@
    (".webp" :> << <<82, 73, 70, 70>> >>) @@
    (".ico" :> << <<0, 0, 1, 0>>, <<0, 0, 2, 0>> >>) @@
    (".pdf" :> << <<37, 80, 68, 70>> >>) @@
    (".doc" :> <<OLE>>) @@
    (".docx" :> <<PK34>>) @@
    (".xls" :> <<OLE>>) @@
    (".xlsx" :> <<PK34>>) @@
    (".ppt" :> <<OLE>>) @@
    (".pptx" :> <<PK34>>) @@
    (".odt" :> <<PK34>>) @@
    (".ods" :> <<PK34>>) @@
    (".odp" :> <<PK34>>) @@
    (".rtf" :> << <<123, 92, 114, 116, 102>> >>) @@
    (".zip" :> <<PK34, <<80, 75, 5, 6>> >>) @@
    (".7z" :> << <<55, 122, 188, 175, 39, 28>> >>) @@
    (".rar" :> << <<82, 97, 114, 33, 26, 7>> >>) @@
    (".gz" :> << <<31, 139>> >>) @@
    (".tar" :> << <<117, 115, 116, 97, 114>> >>)

\* b"WEBP"
WEBP == <<87, 69, 66, 80>>

\* _sanitize_filename on the names the uploads of this model carry: the last path
\* component, for both separators; "" stands for the names it refuses
_sanitize_filename(name) ==
    CASE name = "../../report.pdf" -> "report.pdf"
      [] name = "..\\..\\report.pdf" -> "report.pdf"
      [] name = ".." -> ""
      [] OTHER -> name

\* Path(filename).suffix.lower() on the sanitized names
suffix_lower(name) ==
    CASE name = "report.pdf" -> ".pdf"
      [] name = "SCAN.PDF" -> ".pdf"
      [] name = "photo.png" -> ".png"
      [] name = "anim.gif" -> ".gif"
      [] name = "pic.webp" -> ".webp"
      [] name = "backup.tar" -> ".tar"
      [] name = "notes.txt" -> ".txt"
      [] name = "tool.exe" -> ".exe"
      [] OTHER -> ""

\* mimetypes.guess_type on the sanitized names, or application/octet-stream
guess_type(name) ==
    CASE suffix_lower(name) = ".pdf" -> "application/pdf"
      [] suffix_lower(name) = ".png" -> "image/png"
      [] suffix_lower(name) = ".gif" -> "image/gif"
      [] suffix_lower(name) = ".webp" -> "image/webp"
      [] suffix_lower(name) = ".tar" -> "application/x-tar"
      [] suffix_lower(name) = ".txt" -> "text/plain"
      [] OTHER -> "application/octet-stream"

_validate_content_offset0(content, extension) ==
    IF extension \in TEXT_EXTENSIONS THEN TRUE
    ELSE IF extension \in DOMAIN MAGIC_BYTES
    THEN \E k \in 1..Len(MAGIC_BYTES[extension]) :
            startswith(content, MAGIC_BYTES[extension][k])
    ELSE TRUE

\* _validate_content: TRUE when it returns, FALSE when it raises FileValidationError
_validate_content(content, extension) ==
    IF extension \in TEXT_EXTENSIONS THEN TRUE
    ELSE IF extension \in DOMAIN MAGIC_BYTES
    THEN \E k \in 1..Len(MAGIC_BYTES[extension]) :
            LET sig == MAGIC_BYTES[extension][k]
            IN IF extension = ".tar"
               THEN len(content) >= 262 /\ Slice(content, 257, 262) = sig
               ELSE IF extension = ".webp"
               THEN /\ len(content) >= 12
                    /\ startswith(content, sig)
                    /\ Slice(content, 8, 12) = WEBP
               ELSE startswith(content, sig)
    ELSE TRUE

\* _validate_size: TRUE when it raises FileValidationError
_validate_size(content) == len(content) > max_upload_size_bytes

\* The checks of save_attachment before it touches the database, in their order
ValidateUpload(f) ==
    IF _validate_size(f.content) THEN "too_large"
    ELSE IF _sanitize_filename(f.name) = "" THEN "invalid_filename"
    ELSE IF suffix_lower(_sanitize_filename(f.name)) = "" THEN "no_extension"
    ELSE IF suffix_lower(_sanitize_filename(f.name)) \notin allowed_file_extensions
         THEN "type_not_allowed"
    ELSE IF ~_validate_content(f.content, suffix_lower(_sanitize_filename(f.name)))
         THEN "content_mismatch"
    ELSE "ok"

\* The status the attachment routes answer with (500 when the error is not handled)
HttpStatus(op, outcome) ==
    CASE outcome = "ok" ->
            (CASE op = "upload_attachment" -> 201
               [] op = "delete_attachment" -> 204
               [] OTHER -> 200)
      [] outcome = "not_found" -> 404
      [] outcome = "payload_too_large" -> 413
      [] outcome \in {"filename_required", "too_large", "invalid_filename", "no_extension",
                      "type_not_allowed", "content_mismatch"} -> 400
      [] OTHER -> 500

\* The result of an attachment call: as Ret, with what a download carries and the status
Answer(op, id, arg, outcome, content, mime_type) ==
    [Ret(op, id, arg, outcome, Unset) EXCEPT
        !.data = [NoData EXCEPT !.content = content, !.mime_type = mime_type,
                                !.status = HttpStatus(op, outcome)]]

Fail(op, id, arg, outcome) == Answer(op, id, arg, outcome, NoData.content, "")

\* The answer to an upload: it names what was sent
Uploaded(op, id, arg, outcome, f, content_length) ==
    [Fail(op, id, arg, outcome) EXCEPT !.data.upload = f,
                                       !.data.content_length = content_length]

NewAttachment_one_name(id, todo_id, f) ==
    [todo_id |-> todo_id, filename |-> 1,
     original_name |-> _sanitize_filename(f.name),
     mime_type |-> IF f.mime_type # "" THEN f.mime_type
                   ELSE guess_type(_sanitize_filename(f.name)),
     size_bytes |-> len(f.content)]

\* Attachment(...) as save_attachment builds it; the stored file is named after a
\* fresh uuid, here the id
NewAttachment(id, todo_id, f) ==
    [todo_id |-> todo_id, filename |-> id,
     original_name |-> _sanitize_filename(f.name),
     mime_type |-> IF f.mime_type # "" THEN f.mime_type
                   ELSE guess_type(_sanitize_filename(f.name)),
     size_bytes |-> len(f.content)]

\* What a write_bytes that raised has left on disk: nothing when the file could not
\* be opened, else the bytes that were written before the error
FailedWrite(F, path, content, disk) ==
    CASE disk = "fail" -> F
      [] disk = "fail_empty" -> (path :> Buffer(<<>>, 0)) @@ F
      [] OTHER -> (path :> Buffer(<<>>, len(content) \div 2)) @@ F

\* session.new once the session was flushed: objects that were added and flushed
\* are persistent, no longer new
session_new(added, flushed) == added \ flushed

\* The except branch of get_db: unlink the _pending_file_path of every object of
\* session.new that has one
get_db_cleanup(F, new_objects, pending_file_path) ==
    Restrict(F, {pending_file_path[o] : o \in new_objects \cap DOMAIN pending_file_path})

\* FileService.save_attachment in a request.  disk says how file_path.write_bytes
\* ends: "ok", or raising with "fail" (the file was not created), "fail_empty" or
\* "fail_partial" (it was).  fate says how the request goes on after save_attachment
\* returned: "commit", "error" (a later exception, or commit raising) or "cancelled"
save_attachment_in(op, todo_id, f, content_length, disk, fate) ==
    LET v == ValidateUpload(f)
        id == next_id.att
        row == NewAttachment(id, todo_id, f)
        file_path == row.filename
    IN IF v # "ok"
       THEN /\ last' = Uploaded(op, Null, todo_id, v, f, content_length)
            /\ UNCHANGED <<attachments, files, next_id, sent>>
       ELSE IF todo_id \notin DOMAIN todos
       THEN /\ last' = Uploaded(op, Null, todo_id, "not_found", f, content_length)
            /\ UNCHANGED <<attachments, files, next_id, sent>>
       ELSE IF disk # "ok"
       THEN \* the row was inserted and flushed, then deleted and flushed again;
            \* the exception reaches get_db, which cleans up and rolls back
            /\ files' = get_db_cleanup(FailedWrite(files, file_path, f.content, disk),
                                       session_new({id}, {id}), EmptyTable)
            /\ next_id' = [next_id EXCEPT !.att = id + 1]
            /\ last' = Uploaded(op, id, todo_id, "write_failed", f, content_length)
            /\ UNCHANGED <<attachments, sent>>
       ELSE IF fate = "commit"
       THEN /\ attachments' = (id :> row) @@ attachments
            /\ files' = (file_path :> f.content) @@ files
            /\ sent' = (id :> f) @@ sent
            /\ next_id' = [next_id EXCEPT !.att = id + 1]
            /\ last' = Uploaded(op, id, todo_id, "ok", f, content_length)
       ELSE \* the file was written and attachment._pending_file_path set; then the
            \* request failed: get_db cleans up (not when cancelled: CancelledError
            \* is no Exception) and the row is rolled back
            /\ files' = IF fate = "error"
                        THEN get_db_cleanup((file_path :> f.content) @@ files,
                                            session_new({id}, {id}), (id :> file_path))
                        ELSE (file_path :> f.content) @@ files
            /\ next_id' = [next_id EXCEPT !.att = id + 1]
            /\ last' = Uploaded(op, id, todo_id, "rolled_back", f, content_length)
            /\ UNCHANGED <<attachments, sent>>

\* FileService.save_attachment, in a request that commits when it returned
save_attachment(todo_id, f, disk) ==
    /\ save_attachment_in("save_attachment", todo_id, f, Null, disk, "commit")
    /\ UNCHANGED <<todos, categories, now, conc, cachevars, aux>>

\* The upload route: POST /todos/{todo_id}/attachments.  content_length is the
\* request's Content-Length header (Null when the request has none)
upload_attachment(todo_id, f, content_length, disk, fate) ==
    /\ IF f.name = ""
       THEN /\ last' = Uploaded("upload_attachment", Null, todo_id, "filename_required",
                                 f, content_length)
            /\ UNCHANGED <<attachments, files, next_id, sent>>
       ELSE IF content_length # Null /\ content_length > max_upload_size_bytes
       THEN /\ last' = Uploaded("upload_attachment", Null, todo_id, "payload_too_large",
                                 f, content_length)
            /\ UNCHANGED <<attachments, files, next_id, sent>>
       ELSE IF len(f.content) > max_upload_size_bytes
       THEN /\ last' = Uploaded("upload_attachment", Null, todo_id, "payload_too_large",
                                 f, content_length)
            /\ UNCHANGED <<attachments, files, next_id, sent>>
       ELSE save_attachment_in("upload_attachment", todo_id, f, content_length, disk, fate)
    /\ UNCHANGED <<todos, categories, now, conc, cachevars, aux>>

get_attachment_any_file(attachment_id) ==
    /\ IF attachment_id \notin DOMAIN attachments
       THEN last' = Fail("get_attachment", attachment_id, Unset, "not_found")
       ELSE last' = Answer("get_attachment", attachment_id, Unset, "ok",
                           IF attachments[attachment_id].filename \in DOMAIN files
                           THEN files[attachments[attachment_id].filename]
                           ELSE NoData.content,
                           attachments[attachment_id].mime_type)
    /\ UNCHANGED <<todos, categories, attachments, files, next_id, now, conc, sent, cachevars, aux>>

\* FileService.get_attachment (the download route answers with what it returns)
get_attachment(attachment_id) ==
    /\ IF attachment_id \notin DOMAIN attachments
       THEN last' = Fail("get_attachment", attachment_id, Unset, "not_found")
       ELSE IF attachments[attachment_id].filename \notin DOMAIN files
       THEN last' = Fail("get_attachment", attachment_id, Unset, "not_found")
       ELSE last' = Answer("get_attachment", attachment_id, Unset, "ok",
                           files[attachments[attachment_id].filename],
                           attachments[attachment_id].mime_type)
    /\ UNCHANGED <<todos, categories, attachments, files, next_id, now, conc, sent, cachevars, aux>>

\* FileService.delete_attachment in a request.  unlink says how file_path.unlink
\* ends when the file exists ("ok", or "error": it raised); fate says how the
\* request ends after delete_attachment returned ("commit", or "error": commit raised)
delete_attachment(attachment_id, unlink, fate) ==
    /\ IF attachment_id \notin DOMAIN attachments
       THEN /\ last' = Fail("delete_attachment", attachment_id, Unset, "not_found")
            /\ UNCHANGED <<attachments, files>>
       ELSE LET path == attachments[attachment_id].filename
            IN IF path \in DOMAIN files /\ unlink = "error"
               THEN /\ last' = Fail("delete_attachment", attachment_id, Unset, "unlink_failed")
                    /\ UNCHANGED <<attachments, files>>
               ELSE /\ files' = Restrict(files, {path})
                    /\ IF fate = "commit"
                       THEN /\ attachments' = Restrict(attachments, {attachment_id})
                            /\ last' = Answer("delete_attachment", attachment_id, Unset,
                                              "ok", NoData.content, "")
                       ELSE /\ last' = Fail("delete_attachment", attachment_id, Unset,
                                            "rolled_back")
                            /\ UNCHANGED attachments
    /\ UNCHANGED <<todos, categories, next_id, now, conc, sent, cachevars, aux>>

\* Time passes
Tick ==
    /\ now < MaxClock
    /\ now' = now + 1
    /\ UNCHANGED <<todos, categories, attachments, files, next_id, last, conc, sent, cachevars, aux>>

-----------------------------------------------------------------------------
(* AsyncCache (priority_cache) and PriorityService.  The priority_levels   *)
(* table is one row whose name and colour are a version number: every      *)
(* update writes the next one.  Tasks are requests running on the event    *)
(* loop; they interleave at the awaits.                                    *)

\* DEFAULT_PRIORITY_NAMES
DEFAULT_PRIORITY_NAMES ==
    (1 :> "Lowest") @@ (2 :> "Very Low") @@ (3 :> "Low") @@ (4 :> "Below Normal") @@
    (5 :> "Normal") @@ (6 :> "Above Normal") @@ (7 :> "High") @@ (8 :> "Very High") @@
    (9 :> "Critical") @@ (10 :> "Urgent")

\* PriorityLevel.get_defaults: the rows to seed, level -> name
get_defaults == [level \in DOMAIN DEFAULT_PRIORITY_NAMES |-> DEFAULT_PRIORITY_NAMES[level]]

\* priority_cache = AsyncCache(ttl_seconds=300)
ttl_seconds == 300

MaxTasks == 3
MaxWrites == 2

Tasks == 1..MaxTasks

\* AsyncCache.__init__, AsyncCache.invalidate: no data, no expiry
InvalidCache == [data |-> Null, expires_at |-> Null]

\* AsyncCache.is_valid
is_valid(c, clock) ==
    IF c.data = Null \/ c.expires_at = Null THEN FALSE
    ELSE clock < c.expires_at

\* AsyncCache.get
AsyncCache_get(c, clock) == IF is_valid(c, clock) THEN c.data ELSE Null

\* AsyncCache.set
AsyncCache_set(data, clock) == [data |-> data, expires_at |-> clock + ttl_seconds]

recheck_skipped(c, clock) == Null

\* The double-check of get_or_fetch, made once the lock is held
recheck(c, clock) == AsyncCache_get(c, clock)

\* A task that runs no request.  floor is the version that was committed when the
\* request started, fetched says whether the request called fetch_func, via says
\* where get_or_fetch returned ("fast", "recheck" or "fetch")
IdleTask ==
    [kind |-> "none", pc |-> "idle", data |-> Null, floor |-> Null, fetched |-> FALSE,
     via |-> "none"]

CacheIdle ==
    /\ priorities = [rows |-> get_defaults, committed |-> 1, flushed |-> Null]
    /\ cache = InvalidCache
    /\ lock = Null
    /\ task = [t \in Tasks |-> IdleTask]

noncache == <<todos, categories, attachments, files, next_id, last, conc, sent, aux>>

\* A request calls PriorityService.get_all
StartGet(t) ==
    /\ task[t].pc = "idle"
    /\ task' = [task EXCEPT ![t] = [IdleTask EXCEPT !.kind = "get_all", !.pc = "fast",
                                                    !.floor = priorities.committed]]
    /\ UNCHANGED <<noncache, now, priorities, cache, lock>>

\* get_or_fetch, fast path: cached = self.get(), without the lock
FastPath(t) ==
    /\ task[t].pc = "fast"
    /\ LET cached == AsyncCache_get(cache, now)
       IN task' = IF cached # Null
                  THEN [task EXCEPT ![t].pc = "done", ![t].data = cached, ![t].via = "fast"]
                  ELSE [task EXCEPT ![t].pc = "wait"]
    /\ UNCHANGED <<noncache, now, priorities, cache, lock>>

\* async with self._lock, and the double-check: return what is cached (the lock is
\* released), or call fetch_func
Enter(t) ==
    /\ task[t].pc = "wait"
    /\ lock = Null
    /\ LET cached == recheck(cache, now)
       IN IF cached # Null
          THEN /\ task' = [task EXCEPT ![t].pc = "done", ![t].data = cached,
                                        ![t].via = "recheck"]
               /\ UNCHANGED lock
          ELSE /\ task' = [task EXCEPT ![t].pc = "fetching", ![t].fetched = TRUE]
               /\ lock' = t
    /\ UNCHANGED <<noncache, now, priorities, cache>>

\* _fetch_all: the SELECT reads what is committed
Fetch(t) ==
    /\ task[t].pc = "fetching"
    /\ task' = [task EXCEPT ![t].pc = "fetched", ![t].data = priorities.committed]
    /\ UNCHANGED <<noncache, now, priorities, cache, lock>>

FetchFail_keeps_lock(t) ==
    /\ task[t].pc = "fetching"
    /\ task' = [task EXCEPT ![t].pc = "failed"]
    /\ UNCHANGED <<noncache, now, priorities, cache, lock>>

\* fetch_func raises (the SELECT fails): the exception leaves async with, which
\* releases the lock, and reaches the caller; self.set is not reached
FetchFail(t) ==
    /\ task[t].pc = "fetching"
    /\ lock' = Null
    /\ task' = [task EXCEPT ![t].pc = "failed"]
    /\ UNCHANGED <<noncache, now, priorities, cache>>

\* data = await fetch_func() resumes: self.set(data), return data, the lock is released
Store(t) ==
    /\ task[t].pc = "fetched"
    /\ cache' = AsyncCache_set(task[t].data, now)
    /\ lock' = Null
    /\ task' = [task EXCEPT ![t].pc = "done", ![t].via = "fetch"]
    /\ UNCHANGED <<noncache, now, priorities>>

\* PriorityService.update of the level: the row is read, changed and flushed (the
\* UPDATE holds the database's write lock until the transaction ends), then the cache
\* is invalidated and update returns
Update(t) ==
    /\ task[t].pc = "idle"
    /\ priorities.flushed = Null
    /\ priorities.committed <= MaxWrites
    /\ priorities' = [priorities EXCEPT !.flushed = priorities.committed + 1]
    /\ cache' = InvalidCache
    /\ task' = [task EXCEPT ![t] = [IdleTask EXCEPT !.kind = "update", !.pc = "returned",
                                                    !.data = priorities.committed + 1]]
    /\ UNCHANGED <<noncache, now, lock>>

\* PriorityService.update of a level that does not exist: None, the cache is left alone
UpdateMissing(t) ==
    /\ task[t].pc = "idle"
    /\ task' = [task EXCEPT ![t] = [IdleTask EXCEPT !.kind = "update", !.pc = "done"]]
    /\ UNCHANGED <<noncache, now, priorities, cache, lock>>

\* get_db: await session.commit() of the request that updated
CommitUpdate(t) ==
    /\ task[t].pc = "returned"
    /\ priorities' = [priorities EXCEPT !.committed = priorities.flushed, !.flushed = Null]
    /\ task' = [task EXCEPT ![t].pc = "done"]
    /\ UNCHANGED <<noncache, now, cache, lock>>

\* The request is answered; the task takes the next one
Done(t) ==
    /\ task[t].pc = "done"
    /\ task' = [task EXCEPT ![t] = IdleTask]
    /\ UNCHANGED <<noncache, now, priorities, cache, lock>>

\* Time passes while the cache is in use
CacheTick ==
    /\ now < MaxClock
    /\ now' = now + 1
    /\ UNCHANGED <<noncache, priorities, cache, lock, task>>

-----------------------------------------------------------------------------
(* API key authentication: the dependency of every route under /api        *)

\* A str is the tuple of its code points; None is NoKey (no str has a negative
\* code point)
NoKey == <<-1>>

\* The keys of the model: "", "k", "x" and a key with a character outside ASCII
Keys == {<<>>, <<107>>, <<120>>, <<233>>}

HTTP_401_UNAUTHORIZED == 401

\* The answer to a request whose handling raised an exception no handler catches
HTTP_500_INTERNAL_SERVER_ERROR == 500

\* secrets.compare_digest on two str: a TypeError when either has a character
\* outside ASCII
compare_digest(a, b) ==
    IF \E i \in DOMAIN a : a[i] > 127 THEN "TypeError"
    ELSE IF \E i \in DOMAIN b : b[i] > 127 THEN "TypeError"
    ELSE IF a = b THEN "true" ELSE "false"

verify_api_key_also_in_homeassistant(s, header_key, query_key) ==
    IF s.api_key = NoKey THEN Null
    ELSE LET provided_key == IF header_key # NoKey /\ header_key # <<>>
                             THEN header_key ELSE query_key
         IN IF provided_key = NoKey THEN HTTP_401_UNAUTHORIZED
            ELSE LET equal == compare_digest(provided_key, s.api_key)
                 IN IF equal = "TypeError" THEN HTTP_500_INTERNAL_SERVER_ERROR
                    ELSE IF equal = "false" THEN HTTP_401_UNAUTHORIZED
                    ELSE Null

\* verify_api_key: Null when it returns, else the status of the response to the
\* exception it raises
verify_api_key(s, header_key, query_key) ==
    IF s.api_key = NoKey THEN Null
    ELSE IF s.is_homeassistant THEN Null
    ELSE LET provided_key == IF header_key # NoKey /\ header_key # <<>>
                             THEN header_key ELSE query_key
         IN IF provided_key = NoKey THEN HTTP_401_UNAUTHORIZED
            ELSE LET equal == compare_digest(provided_key, s.api_key)
                 IN IF equal = "TypeError" THEN HTTP_500_INTERNAL_SERVER_ERROR
                    ELSE IF equal = "false" THEN HTTP_401_UNAUTHORIZED
                    ELSE Null

\* No request to /api was answered yet
NoHttp == [route |-> "none", header_key |-> NoKey, query_key |-> NoKey, status |-> Null]

-----------------------------------------------------------------------------
(* Specifications                                                          *)

Requests == {1, 2}

\* The body of a TodoCreate that names a title only
RootData ==
    [title |-> "a", description |-> NoStr, due_date |-> Null, priority |-> 5,
     parent_id |-> Null, category_id |-> Null, tag_ids |-> {}]

BlankRow == TodoAt(RootData, 1)

\* A row of the todos table with parent_id p
StoredRow(p) == [BlankRow EXCEPT !.parent_id = p]

NoSession == [loaded |-> BlankRow, row |-> BlankRow, outcome |-> "none", ret |-> Unset]

\* No tags; no API key is configured (the default); no request to /api
AuxIdle ==
    /\ tags = {}
    /\ settings = [api_key |-> NoKey, is_homeassistant |-> FALSE]
    /\ http = NoHttp

\* No concurrent request is in flight
NoRequests ==
    /\ pc = [r \in Requests |-> "idle"]
    /\ req = [r \in Requests |-> [todo_id |-> Null, raw |-> NoPatch]]
    /\ sess = [r \in Requests |-> NoSession]
    /\ writer = Null

InitSequential ==
    /\ todos = EmptyTable
    /\ categories = {}
    /\ attachments = EmptyTable
    /\ files = EmptyTable
    /\ sent = EmptyTable
    /\ CacheIdle
    /\ AuxIdle
    /\ next_id = [todo |-> 1, cat |-> 1, att |-> 1]
    /\ now = 1
    /\ last = Ret("init", Null, Unset, "ok", Unset)
    /\ NoRequests

\* Request bodies that name a parent, or nothing
ParentPatches(ids) ==
    {NoPatch} \cup {[NoPatch EXCEPT !.fields = {"parent_id"}, !.parent_id = p] :
                        p \in {Null} \cup ids}

\* The hierarchy over the todo ids `ids`: create, add_subtask, update (with
\* reparenting requests) and delete
TreeStep(ids) ==
    \/ /\ next_id.todo \in ids
       /\ \E p \in {Null} \cup ids : create([RootData EXCEPT !.parent_id = p])
    \/ /\ next_id.todo \in ids
       /\ \E p \in ids : add_subtask(p, RootData)
    \/ \E id \in ids, raw \in ParentPatches(ids) : update(id, raw)
    \/ \E id \in ids : delete(id)

NextTree == TreeStep(TodoIds)

SpecTree == InitSequential /\ [][NextTree]_vars

\* T0..T4: the chain that max_subtask_depth creations (create, then add_subtask
\* under the newest todo) leave behind
Chain ==
    [i \in 1..max_subtask_depth |-> StoredRow(i - 1)]

InitDeep ==
    /\ todos = Chain
    /\ categories = {}
    /\ attachments = EmptyTable
    /\ files = EmptyTable
    /\ sent = EmptyTable
    /\ CacheIdle
    /\ AuxIdle
    /\ next_id = [todo |-> max_subtask_depth + 1, cat |-> 1, att |-> 1]
    /\ now = 1
    /\ last = Ret("add_subtask", max_subtask_depth, max_subtask_depth - 1, "ok",
                  max_subtask_depth - 1)
    /\ NoRequests

NextDeep == TreeStep(DeepIds)

SpecDeep == InitDeep /\ [][NextDeep]_vars

\* Request bodies that give completed, a parent, both or nothing
CompletionPatches(ids) ==
    {[NoPatch EXCEPT !.fields = k, !.parent_id = p, !.completed = c] :
        k \in SUBSET {"completed", "parent_id"}, p \in {Null} \cup ids,
        c \in {"true", "false", "null"}}

\* A request body is written one way: a field that is not given has no value
WellFormed(raw) ==
    /\ "parent_id" \notin raw.fields => raw.parent_id = Null
    /\ "completed" \notin raw.fields => raw.completed = "null"
    /\ "category_id" \notin raw.fields => raw.category_id = Null

CompletionIds == 1..MaxCompletionTodos

\* Completion: create, update (completed and parent requests), mark_complete,
\* delete, and the clock
NextCompletion ==
    \/ /\ next_id.todo \in CompletionIds
       /\ \E p \in {Null} \cup CompletionIds : create([RootData EXCEPT !.parent_id = p])
    \/ \E id \in CompletionIds, raw \in CompletionPatches(CompletionIds) :
            WellFormed(raw) /\ update(id, raw)
    \/ \E id \in CompletionIds : mark_complete(id)
    \/ \E id \in CompletionIds : delete(id)
    \/ Tick

SpecCompletion == InitSequential /\ [][NextCompletion]_vars

CascadeIds == 1..MaxCascadeTodos

\* The uploads of the cascade specification: a PDF, and a file named .pdf that is none
Uploads ==
    {[name |-> "report.pdf", content |-> Buffer(<<37, 80, 68, 70>>, 4), mime_type |-> ""],
     [name |-> "report.pdf", content |-> Buffer(<<84, 101, 120, 116>>, 4), mime_type |-> ""]}

\* Cascades: todos with subtasks, categories and attachments, and their deletion
NextCascade ==
    \/ /\ next_id.todo \in CascadeIds
       /\ \E p \in {Null} \cup CascadeIds, c \in {Null} \cup categories :
            create([RootData EXCEPT !.parent_id = p, !.category_id = c])
    \/ /\ next_id.att <= MaxAtts
       /\ \E id \in CascadeIds, f \in Uploads, disk \in {"ok", "fail", "fail_partial"} :
            save_attachment(id, f, disk)
    \/ \E id \in CascadeIds : delete(id)
    \/ next_id.cat <= MaxCats /\ category_create
    \/ \E c \in 1..MaxCats : category_delete(c)

SpecCascade == InitSequential /\ [][NextCascade]_vars

-----------------------------------------------------------------------------
(* Two update requests in flight, each in its own session and transaction  *)
(* (get_db), interleaving at the awaits of TodoService.update.  A session  *)
(* reads what is committed and what it wrote itself; the database has one  *)
(* write lock, taken by the first UPDATE of a transaction and released by  *)
(* its commit or rollback.                                                 *)

seq == <<todos, categories, attachments, files, next_id, now, last, sent, cachevars, aux>>

\* The request body as the route receives it
Body(r) == TodoUpdate(req[r].raw)

Finish(r, outcome, ret) ==
    /\ pc' = [pc EXCEPT ![r] = "done"]
    /\ sess' = [sess EXCEPT ![r].outcome = outcome, ![r].ret = ret]

\* todo = await self.get_by_id(todo_id)
Load(r) ==
    /\ pc[r] = "start"
    /\ IF req[r].todo_id \notin DOMAIN todos
       THEN Finish(r, "not_found", Unset)
       ELSE /\ pc' = [pc EXCEPT ![r] = "loaded"]
            /\ sess' = [sess EXCEPT ![r].loaded = todos[req[r].todo_id],
                                    ![r].row = todos[req[r].todo_id]]
    /\ UNCHANGED <<seq, req, writer>>

\* The parent check of update, on what is committed now; a TodoValidationError
\* ends the request, and get_db rolls back
Validate(r) ==
    /\ pc[r] = "loaded"
    /\ LET v == ValidateUpdate(todos, sess[r].loaded, req[r].todo_id, Body(r))
       IN IF v # "ok"
          THEN Finish(r, v, Unset)
          ELSE IF UpdateMissingTags(tags, Body(r)) # {}
          THEN Finish(r, "tags_not_found", Unset)
          ELSE /\ pc' = [pc EXCEPT ![r] = "validated"]
               /\ UNCHANGED sess
    /\ UNCHANGED <<seq, req, writer>>

\* The assignments of update and await self.db.flush(): the UPDATE takes the write lock
Flush(r) ==
    /\ pc[r] = "validated"
    /\ writer = Null
    /\ writer' = r
    /\ pc' = [pc EXCEPT ![r] = "flushed"]
    /\ sess' = [sess EXCEPT ![r].row = ApplyUpdate(sess[r].loaded, Body(r))]
    /\ UNCHANGED <<seq, req>>

\* The UPDATE finds the database locked by the other transaction for longer than
\* the driver waits: OperationalError, and get_db rolls back
FlushBusy(r) ==
    /\ pc[r] = "validated"
    /\ writer \notin {Null, r}
    /\ Finish(r, "db_locked", Unset)
    /\ UNCHANGED <<seq, req, writer>>

\* The columns the UPDATE sets are the ones the session changed
Merge(current, loaded, row) ==
    [k \in DOMAIN current |-> IF row[k] # loaded[k] THEN row[k] ELSE current[k]]

\* return await self.get_by_id(todo_id), then await session.commit() in get_db
Commit(r) ==
    /\ pc[r] = "flushed"
    /\ todos' = [todos EXCEPT ![req[r].todo_id] = Merge(@, sess[r].loaded, sess[r].row)]
    /\ writer' = Null
    /\ Finish(r, "ok", sess[r].row.parent_id)
    /\ UNCHANGED <<categories, attachments, files, next_id, now, last, req, sent, cachevars, aux>>

ConcIds == 1..MaxConcTodos

\* The forests that creations alone leave behind: every parent is an older todo
ConcForests ==
    {T \in [ConcIds -> {StoredRow(p) : p \in {Null} \cup ConcIds}] :
        \A i \in ConcIds : T[i].parent_id < i}

InitConcurrent ==
    /\ todos \in ConcForests
    /\ categories = {}
    /\ attachments = EmptyTable
    /\ files = EmptyTable
    /\ sent = EmptyTable
    /\ CacheIdle
    /\ AuxIdle
    /\ next_id = [todo |-> MaxConcTodos + 1, cat |-> 1, att |-> 1]
    /\ now = 1
    /\ last = Ret("init", Null, Unset, "ok", Unset)
    /\ pc = [r \in Requests |-> "start"]
    /\ req \in [Requests -> [todo_id : ConcIds, raw : ParentPatches(ConcIds)]]
    /\ sess = [r \in Requests |-> NoSession]
    /\ writer = Null

NextConcurrent ==
    \E r \in Requests : Load(r) \/ Validate(r) \/ Flush(r) \/ FlushBusy(r) \/ Commit(r)

SpecConcurrent == InitConcurrent /\ [][NextConcurrent]_vars

-----------------------------------------------------------------------------
(* Uploads: what the upload route and save_attachment accept               *)

MaxUploadTodos == 1
MaxUploadAtts == 1

\* A tar archive: "ustar" at offset 257
TarHead == [i \in 1..262 |-> IF i > 257 THEN MAGIC_BYTES[".tar"][1][i - 257] ELSE 0]

\* An upload without a declared content type
Upload(name, content) == [name |-> name, content |-> content, mime_type |-> ""]

PdfHead == <<37, 80, 68, 70, 45>>                                \* %PDF-
PngHead == <<137, 80, 78, 71, 13, 10, 26, 10>>
GifHead == <<71, 73, 70, 56, 57, 97>>                            \* GIF89a
TextHead == <<84, 104, 105, 115>>                                \* This
RiffWebp == <<82, 73, 70, 70, 0, 0, 0, 0, 87, 69, 66, 80>>       \* RIFF....WEBP
RiffWave == <<82, 73, 70, 70, 0, 0, 0, 0, 87, 65, 86, 69>>       \* RIFF....WAVE

\* The uploads of the upload specification: for every stage of the pipeline, files
\* that pass it and files that fail it
UploadSamples ==
    {Upload("report.pdf", Buffer(PdfHead, 16)),
     Upload("report.pdf", Buffer(PdfHead, max_upload_size_bytes)),
     Upload("report.pdf", Buffer(PdfHead, max_upload_size_bytes + 1)),
     Upload("report.pdf", Buffer(TextHead, 16)),
     Upload("report.pdf", Buffer(<<>>, 0)),
     Upload("SCAN.PDF", Buffer(PdfHead, 16)),
     Upload("../../report.pdf", Buffer(PdfHead, 16)),
     Upload("../../report.pdf", Buffer(PngHead, 16)),
     Upload("photo.png", Buffer(PngHead, 16)),
     Upload("photo.png", Buffer(PdfHead, 16)),
     Upload("anim.gif", Buffer(GifHead, 16)),
     Upload("anim.gif", Buffer(PngHead, 16)),
     Upload("pic.webp", Buffer(RiffWebp, 16)),
     Upload("pic.webp", Buffer(RiffWave, 16)),
     Upload("pic.webp", Buffer(SubSeq(RiffWebp, 1, 11), 11)),
     Upload("pic.webp", Buffer(PdfHead, 16)),
     Upload("backup.tar", Buffer(TarHead, 512)),
     Upload("backup.tar", Buffer(MAGIC_BYTES[".tar"][1], 512)),
     Upload("backup.tar", Buffer(PdfHead, 16)),
     Upload("notes.txt", Buffer(TextHead, 16)),
     Upload("notes.txt", Buffer(PdfHead, 16)),
     Upload("notes.txt", Buffer(TextHead, max_upload_size_bytes + 1)),
     Upload("tool.exe", Buffer(PdfHead, 16)),
     Upload("tool.exe", Buffer(PdfHead, max_upload_size_bytes + 1)),
     Upload("README", Buffer(TextHead, 16)),
     Upload("..", Buffer(PdfHead, 16)),
     Upload("..", Buffer(PdfHead, max_upload_size_bytes + 1)),
     Upload("", Buffer(PdfHead, 16)),
     Upload("", Buffer(PdfHead, max_upload_size_bytes + 1))}

MultipartOverhead == {140, 260}

\* The Content-Length a client sends with the upload f, or none
ContentLengths(f) == {Null} \cup {len(f.content) + o : o \in MultipartOverhead}

UploadTodoIds == 1..(MaxUploadTodos + 1)

NextUpload ==
    \/ next_id.todo <= MaxUploadTodos /\ create(RootData)
    \/ /\ next_id.att <= MaxUploadAtts
       /\ \E id \in UploadTodoIds, f \in UploadSamples, disk \in {"ok", "fail", "fail_partial"} :
            save_attachment(id, f, disk)
    \/ /\ next_id.att <= MaxUploadAtts
       /\ \E id \in UploadTodoIds, f \in UploadSamples,
             disk \in {"ok", "fail", "fail_empty", "fail_partial"},
             fate \in {"commit", "error", "cancelled"} :
            \E content_length \in ContentLengths(f) :
                upload_attachment(id, f, content_length, disk, fate)

SpecUpload == InitSequential /\ [][NextUpload]_vars

-----------------------------------------------------------------------------
(* The attachment store: uploads, downloads and deletions                  *)

MaxStoreAtts == 3

StoreUploads ==
    {[name |-> "report.pdf", content |-> Buffer(PdfHead, 16),
      mime_type |-> "application/pdf"],
     [name |-> "notes.txt", content |-> Buffer(TextHead, 8), mime_type |-> ""],
     [name |-> "photo.png", content |-> Buffer(PngHead, 16), mime_type |-> "image/x-png"]}

StoreAttIds == 1..MaxStoreAtts

NextStore ==
    \/ next_id.todo <= 1 /\ create(RootData)
    \/ /\ next_id.att <= MaxStoreAtts
       /\ \E f \in StoreUploads, disk \in {"ok", "fail_partial"},
             fate \in {"commit", "error", "cancelled"} :
            upload_attachment(1, f, Null, disk, fate)
    \/ \E id \in StoreAttIds : get_attachment(id)
    \/ \E id \in StoreAttIds, unlink \in {"ok", "error"}, fate \in {"commit", "error"} :
            delete_attachment(id, unlink, fate)

SpecStore == InitSequential /\ [][NextStore]_vars

-----------------------------------------------------------------------------
(* The priority cache under concurrent requests                            *)

NextCache ==
    \/ \E t \in Tasks :
        \/ StartGet(t)
        \/ FastPath(t)
        \/ Enter(t)
        \/ Fetch(t)
        \/ Store(t)
        \/ Update(t)
        \/ UpdateMissing(t)
        \/ CommitUpdate(t)
        \/ Done(t)
    \/ CacheTick

SpecCache == InitSequential /\ [][NextCache]_vars

\* Every task has called get_all, on a cache that is empty or holds an expired value
InitHerd ==
    /\ todos = EmptyTable
    /\ categories = {}
    /\ attachments = EmptyTable
    /\ files = EmptyTable
    /\ sent = EmptyTable
    /\ AuxIdle
    /\ next_id = [todo |-> 1, cat |-> 1, att |-> 1]
    /\ now = 1
    /\ last = Ret("init", Null, Unset, "ok", Unset)
    /\ NoRequests
    /\ priorities = [rows |-> get_defaults, committed |-> 2, flushed |-> Null]
    /\ cache \in {InvalidCache, [data |-> 1, expires_at |-> 1]}
    /\ lock = Null
    /\ task = [t \in Tasks |-> [IdleTask EXCEPT !.kind = "get_all", !.pc = "fast",
                                                !.floor = 2]]

NextHerd ==
    \/ \E t \in Tasks : FastPath(t) \/ Enter(t) \/ Fetch(t) \/ Store(t)
    \/ CacheTick

SpecHerd == InitHerd /\ [][NextHerd]_vars

\* A step of a caller of get_or_fetch whose fetch_func may raise
RefillStep == \E t \in Tasks : FastPath(t) \/ Enter(t) \/ Fetch(t) \/ FetchFail(t) \/ Store(t)

NextRefill ==
    \/ RefillStep
    \/ CacheTick

\* The event loop runs a task that can run; asyncio.Lock wakes its waiters in turn
SpecRefill == InitHerd /\ [][NextRefill]_vars /\ WF_vars(RefillStep)

-----------------------------------------------------------------------------
(* PriorityService, one request at a time: seeding at startup, updates and *)
(* cached reads.  What the cache holds is the number of the table content  *)
(* it was filled from (an empty table is cached as the empty list, which   *)
(* is not None).                                                           *)

\* A name argument that is None
NoName == ""

\* The names requests give to levels
LevelNames == {"Mine", NoName}

Levels == DOMAIN DEFAULT_PRIORITY_NAMES

seed_defaults_via_cache ==
    /\ IF AsyncCache_get(cache, now) = Null
       THEN /\ priorities' = [priorities EXCEPT !.rows = get_defaults,
                                                !.committed = priorities.committed + 1]
            /\ cache' = InvalidCache
            /\ last' = Ret("seed_defaults", Null, Unset, "seeded", Unset)
       ELSE /\ last' = Ret("seed_defaults", Null, Unset, "exists", Unset)
            /\ UNCHANGED <<priorities, cache>>
    /\ UNCHANGED <<todos, categories, attachments, files, next_id, now, conc, sent, lock, task,
                   aux>>

\* PriorityService.seed_defaults and the commit of its caller (lifespan, ensure_db)
seed_defaults ==
    /\ LET existing == priorities.rows
       IN IF DOMAIN existing = {}
          THEN /\ priorities' = [priorities EXCEPT !.rows = get_defaults,
                                                   !.committed = priorities.committed + 1]
               /\ cache' = InvalidCache
               /\ last' = Ret("seed_defaults", Null, Unset, "seeded", Unset)
          ELSE /\ last' = Ret("seed_defaults", Null, Unset, "exists", Unset)
               /\ UNCHANGED <<priorities, cache>>
    /\ UNCHANGED <<todos, categories, attachments, files, next_id, now, conc, sent, lock, task,
                   aux>>

\* PriorityService.update in a request that commits
priority_update(level, name) ==
    /\ IF level \notin DOMAIN priorities.rows
       THEN /\ last' = Ret("priority_update", level, Unset, "not_found", Unset)
            /\ UNCHANGED <<priorities, cache>>
       ELSE /\ priorities' = [priorities EXCEPT
                                !.rows[level] = IF name # NoName THEN name ELSE @,
                                !.committed = priorities.committed + 1]
            /\ cache' = InvalidCache
            /\ last' = Ret("priority_update", level, Unset, "ok", Unset)
    /\ UNCHANGED <<todos, categories, attachments, files, next_id, now, conc, sent, lock, task,
                   aux>>

\* PriorityService.get_all with no other request in flight
priority_get_all ==
    /\ LET cached == AsyncCache_get(cache, now)
       IN IF cached # Null
          THEN /\ last' = Ret("priority_get_all", Null, Unset, "ok", cached)
               /\ UNCHANGED cache
          ELSE /\ cache' = AsyncCache_set(priorities.committed, now)
               /\ last' = Ret("priority_get_all", Null, Unset, "ok", priorities.committed)
    /\ UNCHANGED <<todos, categories, attachments, files, next_id, now, conc, sent, priorities,
                   lock, task, aux>>

\* The process is started again: priority_cache is a new AsyncCache, the database stays
restart ==
    /\ cache' = InvalidCache
    /\ last' = Ret("restart", Null, Unset, "ok", Unset)
    /\ UNCHANGED <<todos, categories, attachments, files, next_id, now, conc, sent, priorities,
                   lock, task, aux>>

\* A new database: init_db has created the tables, priority_levels is empty
InitSeed ==
    /\ todos = EmptyTable
    /\ categories = {}
    /\ attachments = EmptyTable
    /\ files = EmptyTable
    /\ sent = EmptyTable
    /\ AuxIdle
    /\ next_id = [todo |-> 1, cat |-> 1, att |-> 1]
    /\ now = 1
    /\ last = Ret("init", Null, Unset, "ok", Unset)
    /\ NoRequests
    /\ priorities = [rows |-> EmptyTable, committed |-> 1, flushed |-> Null]
    /\ cache = InvalidCache
    /\ lock = Null
    /\ task = [t \in Tasks |-> IdleTask]

NextSeed ==
    \/ seed_defaults
    \/ /\ priorities.committed <= MaxWrites + 1
       /\ \E level \in Levels, name \in LevelNames : priority_update(level, name)
    \/ priority_get_all
    \/ restart
    \/ CacheTick

SpecSeed == InitSeed /\ [][NextSeed]_vars

-----------------------------------------------------------------------------
(* The hierarchy walks over stored parent_id tables, damaged ones included *)

MaxExtraEdges == 2

MaxGraphTodos == 3

\* The number of iterations _get_parent_depth allows itself
WalkLimit == max_subtask_depth + 10

\* Ids for chains that outlast the walk
LongIds == 1..(WalkLimit + MaxExtraEdges + 1)

GraphIds == 1..MaxGraphTodos

\* Every todos table over GraphIds: forests, cycles, and parent_ids that name no row
SmallGraphs ==
    {[i \in GraphIds |-> StoredRow(f[i])] :
        f \in [GraphIds -> {Null} \cup GraphIds \cup {MaxGraphTodos + 1}]}

\* The chain 1 <- 2 <- ... <- n whose first todo has parent_id top: a root (null),
\* a todo of the chain (a cycle), or no row
LongGraphs ==
    {[i \in 1..n |-> StoredRow(IF i = 1 THEN top ELSE i - 1)] :
        n \in LongIds, top \in {Null} \cup LongIds}

\* A call of _get_parent_depth: the depth it returns, or the error it raises
parent_depth(node) ==
    /\ LET depth == _get_parent_depth(todos, node)
       IN last' = IF depth = CycleDetected
                  THEN Ret("_get_parent_depth", node, Unset, "circular", Unset)
                  ELSE Ret("_get_parent_depth", node, Unset, "ok", depth)
    /\ UNCHANGED <<todos, categories, attachments, files, next_id, now, conc, sent,
                   cachevars, aux>>

\* A call of _would_create_cycle: the boolean it returns
would_create_cycle(todo_id, new_parent_id) ==
    /\ last' = Ret("_would_create_cycle", todo_id, new_parent_id,
                   IF _would_create_cycle(todos, todo_id, new_parent_id)
                   THEN "true" ELSE "false", Unset)
    /\ UNCHANGED <<todos, categories, attachments, files, next_id, now, conc, sent,
                   cachevars, aux>>

InitWalk ==
    /\ todos \in SmallGraphs \cup LongGraphs
    /\ categories = {}
    /\ attachments = EmptyTable
    /\ files = EmptyTable
    /\ sent = EmptyTable
    /\ CacheIdle
    /\ AuxIdle
    /\ next_id = [todo |-> Cardinality(DOMAIN todos) + 1, cat |-> 1, att |-> 1]
    /\ now = 1
    /\ last = Ret("init", Null, Unset, "ok", Unset)
    /\ NoRequests

NextWalk ==
    \/ \E node \in LongIds : parent_depth(node)
    \/ \E todo_id \in GraphIds, new_parent_id \in GraphIds \cup {MaxGraphTodos + 1} :
            would_create_cycle(todo_id, new_parent_id)

SpecWalk == InitWalk /\ [][NextWalk]_vars

-----------------------------------------------------------------------------
(* Requests to the routes under /api                                       *)

MaxAuthTodos == 2

AuthIds == 1..MaxAuthTodos

\* A request to a route under /api: the router's dependency verify_api_key runs
\* first, and the route's handler (with its service call) only when it returned
api_route(route, header_key, query_key, handler) ==
    LET denied == verify_api_key(settings, header_key, query_key)
    IN /\ IF denied # Null
          THEN /\ http' = [route |-> route, header_key |-> header_key,
                           query_key |-> query_key, status |-> denied]
               /\ UNCHANGED <<todos, next_id, last>>
          ELSE /\ handler
               /\ http' = [route |-> route, header_key |-> header_key,
                           query_key |-> query_key,
                           status |-> CASE last'.outcome = "not_found" -> 404
                                        [] last'.outcome # "ok" -> 400
                                        [] route = "create_todo" -> 201
                                        [] OTHER -> 200]
       /\ UNCHANGED <<categories, attachments, files, now, conc, sent, cachevars,
                      tags, settings>>

\* POST /api/todos
create_todo(header_key, query_key, data) ==
    api_route("create_todo", header_key, query_key, create_as("create", data))

\* GET /api/todos/{todo_id}
get_todo(header_key, query_key, todo_id) ==
    api_route("get_todo", header_key, query_key,
              /\ last' = IF todo_id \in DOMAIN todos
                         THEN Ret("get_by_id", todo_id, Unset, "ok", todos[todo_id].parent_id)
                         ELSE Ret("get_by_id", todo_id, Unset, "not_found", Unset)
              /\ UNCHANGED <<todos, next_id>>)

\* The process was started with any TODOTRACKER_API_KEY (or none), inside a Home
\* Assistant add-on (SUPERVISOR_TOKEN is set) or not
InitAuth ==
    /\ todos = EmptyTable
    /\ categories = {}
    /\ attachments = EmptyTable
    /\ files = EmptyTable
    /\ sent = EmptyTable
    /\ CacheIdle
    /\ tags = {}
    /\ settings \in [api_key : Keys \cup {NoKey}, is_homeassistant : BOOLEAN]
    /\ http = NoHttp
    /\ next_id = [todo |-> 1, cat |-> 1, att |-> 1]
    /\ now = 1
    /\ last = Ret("init", Null, Unset, "ok", Unset)
    /\ NoRequests

NextAuth ==
    \/ /\ next_id.todo \in AuthIds
       /\ \E header_key \in Keys \cup {NoKey}, query_key \in Keys \cup {NoKey},
             p \in {Null} \cup AuthIds :
                create_todo(header_key, query_key, [RootData EXCEPT !.parent_id = p])
    \/ \E header_key \in Keys \cup {NoKey}, query_key \in Keys \cup {NoKey},
          todo_id \in AuthIds :
                get_todo(header_key, query_key, todo_id)

SpecAuth == InitAuth /\ [][NextAuth]_vars

-----------------------------------------------------------------------------
(* The fields of a todo: create and partial update, with tags              *)

MaxTags == 1

MaxFieldTodos == 1

MaxGiven == 1

FieldIds == 1..MaxFieldTodos

\* The tag ids requests name: the tags table takes its ids from 1..MaxTags, two
\* more ids are never those of a tag
TagIds == 1..(MaxTags + 2)

\* TagService.create: a tag with a fresh id
tag_create(tag_id) ==
    /\ tag_id \notin tags
    /\ tags' = tags \cup {tag_id}
    /\ last' = Ret("tag_create", tag_id, Unset, "ok", Unset)
    /\ UNCHANGED <<todos, categories, attachments, files, next_id, now, conc, sent,
                   cachevars, settings, http>>

\* The tag_ids of the request bodies
TagIdSets == {{}, {1}, {1, MaxTags + 1}, {MaxTags + 1, MaxTags + 2}}

\* TodoCreate bodies
CreateBodies ==
    {[RootData EXCEPT !.parent_id = p, !.tag_ids = g] :
        p \in {Null} \cup 1..(MaxFieldTodos + 1), g \in TagIdSets}

\* The values a TodoUpdate body gives: new ones, or the ones of RootData again
\* (with description, due_date and tag_ids null)
Given ==
    {[NoPatch EXCEPT !.title = "b", !.description = "d", !.due_date = 2, !.priority = 7,
                     !.category_id = 1, !.completed = "true"],
     [NoPatch EXCEPT !.title = "a", !.priority = 5, !.completed = "false"]}

\* TodoUpdate bodies: at most MaxGiven fields or all of them, with any tag_ids
FieldPatches ==
    {[k \in DOMAIN NoPatch |->
        IF k = "fields" THEN f
        ELSE IF k \notin f THEN NoPatch[k]
        ELSE IF k = "tag_ids" THEN g
        ELSE v[k]] :
        f \in {x \in SUBSET TodoUpdateFields :
                    Cardinality(x) <= MaxGiven \/ x = TodoUpdateFields},
        v \in Given, g \in TagIdSets \cup {NoTagIds}}

InitFields ==
    /\ todos = EmptyTable
    /\ categories = {}
    /\ attachments = EmptyTable
    /\ files = EmptyTable
    /\ sent = EmptyTable
    /\ CacheIdle
    /\ AuxIdle
    /\ next_id = [todo |-> 1, cat |-> 1, att |-> 1]
    /\ now = 1
    /\ last = Ret("init", Null, Unset, "ok", Unset)
    /\ NoRequests

NextFields ==
    \/ \E tag_id \in 1..MaxTags : tag_create(tag_id)
    \/ /\ next_id.todo \in FieldIds
       /\ \E data \in CreateBodies : create(data)
    \/ \E id \in FieldIds, raw \in FieldPatches : update(id, raw)
    \/ Tick

SpecFields == InitFields /\ [][NextFields]_vars

-----------------------------------------------------------------------------
(* TodoService.get_all: filters, order and pages                           *)

MaxQueryTodos == 3

MaxPage == 2

MaxPageSize == 2

QueryIds == 1..MaxQueryTodos

\* The WHERE clauses of get_all: the row todo passes them
Selected(todo, q) ==
    /\ IF q.parent_id # Null THEN todo.parent_id = q.parent_id ELSE todo.parent_id = Null
    /\ q.category_id # Null => todo.category_id = q.category_id
    /\ q.priority_min # Null => todo.priority >= q.priority_min
    /\ q.priority_max # Null => todo.priority <= q.priority_max
    /\ q.completed # "null" => todo.completed = Truthy(q.completed)
    /\ q.due_before # Null => (todo.due_date # Null /\ todo.due_date <= q.due_before)
    /\ q.due_after # Null => (todo.due_date # Null /\ todo.due_date >= q.due_after)
    /\ q.tag_id # Null => q.tag_id \in todo.tags

OrderedBefore_ascending(a, b) ==
    \/ a.priority < b.priority
    \/ /\ a.priority = b.priority
       /\ a.due_date # Null
       /\ b.due_date = Null \/ a.due_date < b.due_date

\* ORDER BY priority DESC, due_date ASC NULLS LAST: the row a sorts before the row b
OrderedBefore(a, b) ==
    \/ a.priority > b.priority
    \/ /\ a.priority = b.priority
       /\ a.due_date # Null
       /\ b.due_date = Null \/ a.due_date < b.due_date

\* The orders the database may return the rows ids of T in: rows that sort equal
\* come in any order
Orderings(T, ids) ==
    {s \in [1..Cardinality(ids) -> ids] :
        /\ \A i, j \in DOMAIN s : i # j => s[i] # s[j]
        /\ \A i, j \in DOMAIN s : i < j => ~OrderedBefore(T[s[j]], T[s[i]])}

\* OFFSET offset LIMIT limit as SQLite evaluates them: a negative offset is 0, a
\* negative limit is no limit
OffsetLimit(s, offset, limit) ==
    LET first == IF offset < 0 THEN 1 ELSE offset + 1
        stop == IF limit < 0 \/ first + limit - 1 > Len(s) THEN Len(s)
                ELSE first + limit - 1
    IN SubSeq(s, first, stop)

\* TodoService.get_all: the page (ids, in the order returned) and the total
get_all(q) ==
    /\ last.op = "init"
    /\ LET ids == {id \in DOMAIN todos : Selected(todos[id], q)}
       IN \E s \in Orderings(todos, ids) :
            last' = [Ret("get_all", Null, Unset, "ok", Unset) EXCEPT
                        !.data.query = q,
                        !.data.items = OffsetLimit(s, (q.page - 1) * q.page_size,
                                                   q.page_size),
                        !.data.total = Cardinality(ids)]
    /\ UNCHANGED <<todos, categories, attachments, files, next_id, now, conc, sent,
                   cachevars, aux>>

\* The rows of the stored tables: roots of either priority, with and without a due
\* date, a category, a tag, completed or not, and a subtask of the first todo
QueryRows ==
    {BlankRow,
     [BlankRow EXCEPT !.priority = 7, !.due_date = 2, !.category_id = 1, !.tags = {1},
                      !.completed = TRUE, !.completed_at = 1],
     [BlankRow EXCEPT !.due_date = 1, !.category_id = 1],
     [BlankRow EXCEPT !.priority = 7, !.tags = {1}],
     [BlankRow EXCEPT !.due_date = 2, !.tags = {1}],
     [BlankRow EXCEPT !.parent_id = 1, !.priority = 7, !.due_date = 1, !.category_id = 1,
                      !.tags = {1}]}

\* The arguments of the calls: each filter given or not, and the page
Queries ==
    {[NoQuery EXCEPT !.category_id = c, !.tag_id = g, !.priority_min = lo,
                     !.priority_max = hi, !.completed = done, !.due_before = b,
                     !.due_after = a, !.page = page, !.page_size = page_size] :
        c \in {Null, 1}, g \in {Null, 1}, lo \in {Null, 7}, hi \in {Null, 5},
        done \in {"null", "true", "false"}, b \in {Null, 1}, a \in {Null, 2},
        page \in 1..MaxPage, page_size \in 1..MaxPageSize}

\* Any stored table of MaxQueryTodos todos, one category and one tag; a query
\* changes nothing, so each table is queried once
InitQuery ==
    /\ todos \in {T \in [QueryIds -> QueryRows] : \A i \in QueryIds : T[i].parent_id < i}
    /\ categories = {1}
    /\ attachments = EmptyTable
    /\ files = EmptyTable
    /\ sent = EmptyTable
    /\ CacheIdle
    /\ tags = {1}
    /\ settings = [api_key |-> NoKey, is_homeassistant |-> FALSE]
    /\ http = NoHttp
    /\ next_id = [todo |-> MaxQueryTodos + 1, cat |-> 2, att |-> 1]
    /\ now = 2
    /\ last = Ret("init", Null, Unset, "ok", Unset)
    /\ NoRequests

NextQuery == \E q \in Queries : get_all(q)

SpecQuery == InitQuery /\ [][NextQuery]_vars

-----------------------------------------------------------------------------
(* Concurrent create, add_subtask and delete: each request has its own     *)
(* session; SQLite does not check foreign keys (no PRAGMA foreign_keys)    *)

RaceSession ==
    [loaded |-> BlankRow, row |-> BlankRow, outcome |-> "none", ret |-> Unset, gone |-> {}]

\* The requests: create with any parent, add_subtask under a todo, delete of a todo
RaceRequests ==
    {[op |-> "create", todo_id |-> Null, raw |-> AsGiven([RootData EXCEPT !.parent_id = p])] :
        p \in {Null} \cup ConcIds}
    \cup {[op |-> "add_subtask", todo_id |-> p, raw |-> AsGiven(RootData)] : p \in ConcIds}
    \cup {[op |-> "delete", todo_id |-> id, raw |-> NoPatch] : id \in ConcIds}

\* The TodoCreate body that TodoService.create is called with
RaceData(r) ==
    [k \in DOMAIN RootData |->
        IF k = "parent_id" /\ req[r].op = "add_subtask" THEN req[r].todo_id
        ELSE req[r].raw[k]]

\* add_subtask loads the parent; create checks the parent and the tags on what is
\* committed now
CreateValidate(r) ==
    /\ pc[r] = "start"
    /\ req[r].op \in {"create", "add_subtask"}
    /\ IF req[r].op = "add_subtask" /\ req[r].todo_id \notin DOMAIN todos
       THEN Finish(r, "not_found", Unset)
       ELSE LET v == _validate_parent(todos, RaceData(r).parent_id, Null)
            IN IF v # "ok"
               THEN Finish(r, v, Unset)
               ELSE IF _validate_and_get_tags(tags, RaceData(r).tag_ids) # {}
               THEN Finish(r, "tags_not_found", Unset)
               ELSE /\ pc' = [pc EXCEPT ![r] = "validated"]
                    /\ UNCHANGED sess
    /\ UNCHANGED <<seq, req, writer>>

\* self.db.add(todo) and await self.db.flush(): the INSERT takes the write lock;
\* the parent_id it writes is not checked by the database
CreateFlush(r) ==
    /\ pc[r] = "validated"
    /\ req[r].op \in {"create", "add_subtask"}
    /\ writer = Null
    /\ writer' = r
    /\ pc' = [pc EXCEPT ![r] = "flushed"]
    /\ sess' = [sess EXCEPT ![r].row = NewTodo(RaceData(r)), ![r].ret = next_id.todo]
    /\ next_id' = [next_id EXCEPT !.todo = next_id.todo + 1]
    /\ UNCHANGED <<todos, categories, attachments, files, now, last, sent, cachevars, aux,
                   req>>

\* return await self.get_by_id(todo.id), then await session.commit() in get_db
CreateCommit(r) ==
    /\ pc[r] = "flushed"
    /\ req[r].op \in {"create", "add_subtask"}
    /\ todos' = (sess[r].ret :> sess[r].row) @@ todos
    /\ writer' = Null
    /\ Finish(r, "ok", sess[r].ret)
    /\ UNCHANGED <<categories, attachments, files, next_id, now, last, req, sent, cachevars,
                   aux>>

\* todo = await self.get_by_id(todo_id) with its subtasks, and await self.db.delete(todo):
\* the session marks the todo and the subtasks it has loaded
DeleteLoad(r) ==
    /\ pc[r] = "start"
    /\ req[r].op = "delete"
    /\ IF req[r].todo_id \notin DOMAIN todos
       THEN Finish(r, "not_found", Unset)
       ELSE /\ pc' = [pc EXCEPT ![r] = "loaded"]
            /\ sess' = [sess EXCEPT ![r].gone = SubtasksCascade(todos, {req[r].todo_id})]
    /\ UNCHANGED <<seq, req, writer>>

\* await session.commit() in get_db: the DELETEs of the marked rows; a row that is
\* gone already is a StaleDataError
DeleteCommit(r) ==
    /\ pc[r] = "loaded"
    /\ req[r].op = "delete"
    /\ writer = Null
    /\ IF sess[r].gone \subseteq DOMAIN todos
       THEN /\ todos' = Restrict(todos, sess[r].gone)
            /\ attachments' = AttachmentsCascade(attachments, sess[r].gone)
            /\ Finish(r, "ok", Unset)
       ELSE /\ Finish(r, "stale", Unset)
            /\ UNCHANGED <<todos, attachments>>
    /\ UNCHANGED <<categories, files, next_id, now, last, req, sent, cachevars, aux, writer>>

\* The DELETE finds the database locked for longer than the driver waits
DeleteBusy(r) ==
    /\ pc[r] = "loaded"
    /\ req[r].op = "delete"
    /\ writer \notin {Null, r}
    /\ Finish(r, "db_locked", Unset)
    /\ UNCHANGED <<seq, req, writer>>

InitRace ==
    /\ todos \in ConcForests
    /\ categories = {}
    /\ attachments = EmptyTable
    /\ files = EmptyTable
    /\ sent = EmptyTable
    /\ CacheIdle
    /\ AuxIdle
    /\ next_id = [todo |-> MaxConcTodos + 1, cat |-> 1, att |-> 1]
    /\ now = 1
    /\ last = Ret("init", Null, Unset, "ok", Unset)
    /\ pc = [r \in Requests |-> "start"]
    /\ req \in [Requests -> RaceRequests]
    /\ sess = [r \in Requests |-> RaceSession]
    /\ writer = Null

NextRace ==
    \E r \in Requests :
        \/ CreateValidate(r)
        \/ CreateFlush(r)
        \/ FlushBusy(r)
        \/ CreateCommit(r)
        \/ DeleteLoad(r)
        \/ DeleteCommit(r)
        \/ DeleteBusy(r)

SpecRace == InitRace /\ [][NextRace]_vars

-----------------------------------------------------------------------------
(* The vocabulary of the properties: facts of the stored parent_id graph,  *)
(* stated without the service's own walks                                  *)

\* Following parent_id from id reaches a todo whose parent_id is null in at most fuel steps
RECURSIVE ReachesRoot(_, _, _)
ReachesRoot(T, id, fuel) ==
    IF id \notin DOMAIN T THEN FALSE
    ELSE IF T[id].parent_id = Null THEN TRUE
    ELSE IF fuel = 0 THEN FALSE
    ELSE ReachesRoot(T, T[id].parent_id, fuel - 1)

\* The number of parent edges from id up to its root (at most fuel are counted)
RECURSIVE EdgesUp(_, _, _)
EdgesUp(T, id, fuel) ==
    IF id \notin DOMAIN T \/ fuel = 0 THEN 0
    ELSE IF T[id].parent_id = Null THEN 0
    ELSE 1 + EdgesUp(T, T[id].parent_id, fuel - 1)

DepthOf(T, id) == EdgesUp(T, id, Cardinality(DOMAIN T) + 1)

\* d is below a: a is reached from d by one or more parent edges
RECURSIVE IsBelow(_, _, _, _)
IsBelow(T, d, a, fuel) ==
    IF d \notin DOMAIN T \/ fuel = 0 THEN FALSE
    ELSE IF T[d].parent_id = Null THEN FALSE
    ELSE IF T[d].parent_id = a THEN TRUE
    ELSE IsBelow(T, T[d].parent_id, a, fuel - 1)

IsDescendant(T, d, a) == IsBelow(T, d, a, Cardinality(DOMAIN T))

\* The number of edges from id down to its deepest descendant
HeightOf(T, id) ==
    LET below == {d \in DOMAIN T : IsDescendant(T, d, id)}
    IN IF below = {} THEN 0
       ELSE CHOOSE h \in 1..Cardinality(DOMAIN T) :
                /\ \E d \in below : DepthOf(T, d) - DepthOf(T, id) = h
                /\ \A d \in below : DepthOf(T, d) - DepthOf(T, id) <= h

\* Following parent_id from any todo of T reaches a todo whose parent_id is null
Acyclic(T) == \A id \in DOMAIN T : ReachesRoot(T, id, Cardinality(DOMAIN T))

\* No todo of T is more than max_subtask_depth parent edges away from its root
WithinDepth(T) == \A id \in DOMAIN T : DepthOf(T, id) <= max_subtask_depth

\* The todo id and everything below it
Subtree(T, id) == {id} \cup {d \in DOMAIN T : IsDescendant(T, d, id)}

-----------------------------------------------------------------------------
(* The hierarchy, one request at a time                                    *)

\* C1: after any sequence of create, add_subtask, update and delete, following
\* parent_id from any existing todo reaches a todo whose parent_id is null: the
\* parent graph has no cycle (and no edge to a todo that is gone).
C1_ParentGraphAcyclic == Acyclic(todos)

\* C1's case: an update asked to put a todo under one of its own descendants
C1_Witness ==
    /\ last.op = "update"
    /\ last.outcome = "ok"
    /\ last.id \in DOMAIN todos
    /\ last.arg \in DOMAIN todos
    /\ IsDescendant(todos, last.arg, last.id)
    /\ Cardinality(DOMAIN todos) >= 3

\* C2: after any sequence of create, add_subtask, update and delete, every existing
\* todo is at most max_subtask_depth parent edges away from its root.
C2_DepthBounded == WithinDepth(todos)

\* C2's case: a todo sits at the maximum depth, and an update asked to move a todo
\* with subtasks under a parent where its subtree would pass the limit
C2_Witness ==
    /\ \E id \in DOMAIN todos : DepthOf(todos, id) = max_subtask_depth
    /\ last.op = "update"
    /\ last.outcome = "ok"
    /\ last.id \in DOMAIN todos
    /\ last.arg \in DOMAIN todos
    /\ last.arg # last.id
    /\ ~IsDescendant(todos, last.arg, last.id)
    /\ HeightOf(todos, last.id) >= 1
    /\ DepthOf(todos, last.arg) < max_subtask_depth
    /\ DepthOf(todos, last.arg) + 1 + HeightOf(todos, last.id) > max_subtask_depth

C3_Outcome ==
    (last.op \in {"create", "add_subtask"} /\ last.arg \in DOMAIN todos) =>
        LET d == DepthOf(todos, last.arg)
        IN /\ d + 1 <= max_subtask_depth =>
                /\ last.outcome = "ok"
                /\ last.id \in DOMAIN todos
                /\ todos[last.id].parent_id = last.arg
           /\ d + 1 > max_subtask_depth => last.outcome = "depth_exceeded"

C3_Frame ==
    (last'.op \in {"create", "add_subtask"} /\ last'.outcome # "ok") =>
        /\ todos' = todos
        /\ next_id' = next_id

\* C3: create / add_subtask under a parent at depth d succeeds when
\* d + 1 <= max_subtask_depth and fails with the depth error when
\* d + 1 > max_subtask_depth; a failed call adds no todo and changes none.
C3_CreateDepthLimit == [](C3_Outcome) /\ [][C3_Frame]_vars

\* C3's case: the chain T0..T5 was accepted and T6 under T5 was rejected
C3_Witness ==
    /\ last.op = "add_subtask"
    /\ last.outcome = "depth_exceeded"
    /\ last.arg = max_subtask_depth + 1
    /\ \A i \in 1..(max_subtask_depth + 1) :
            i \in DOMAIN todos /\ todos[i].parent_id = i - 1
    /\ DOMAIN todos = 1..(max_subtask_depth + 1)

\* C4: an update of A with parent_id = B, where B is A or a descendant of A, fails
\* with the circular-reference error and leaves both parent_ids as they were.
C4_CycleUpdateRejected ==
    (/\ last.op = "update"
     /\ last.id \in DOMAIN todos
     /\ last.arg \in DOMAIN todos
     /\ (last.arg = last.id \/ IsDescendant(todos, last.arg, last.id)))
        => last.outcome = "circular"

\* C5: an update of C with parent_id = P succeeds and the returned and stored todo
\* have parent_id = P whenever P is null, or P exists, is neither C nor below C, and
\* is less than max_subtask_depth deep.
C5_ReparentObservable ==
    (/\ last.op = "update"
     /\ last.id \in DOMAIN todos
     /\ last.arg # Unset
     /\ \/ last.arg = Null
        \/ /\ last.arg \in DOMAIN todos
           /\ last.arg # last.id
           /\ ~IsDescendant(todos, last.arg, last.id)
           /\ DepthOf(todos, last.arg) < max_subtask_depth)
        => /\ last.outcome = "ok"
           /\ last.ret = last.arg
           /\ todos[last.id].parent_id = last.arg

-----------------------------------------------------------------------------
(* Concurrent reparenting                                                  *)

\* The two requests ask for each other's todo as parent: a cycle if both took effect
Opposed ==
    /\ req[1].todo_id # req[2].todo_id
    /\ "parent_id" \in req[1].raw.fields
    /\ "parent_id" \in req[2].raw.fields
    /\ req[1].raw.parent_id = req[2].todo_id
    /\ req[2].raw.parent_id = req[1].todo_id

\* C6: of two concurrent reparenting requests that would jointly create a cycle at
\* most one succeeds, and the committed tree is acyclic and within the depth bound.
C6_AtMostOneReparentSucceeds ==
    (pc[1] = "done" /\ pc[2] = "done" /\ Opposed) =>
        /\ ~(sess[1].outcome = "ok" /\ sess[2].outcome = "ok")
        /\ Acyclic(todos)
        /\ WithinDepth(todos)

-----------------------------------------------------------------------------
(* Completion                                                              *)

-----------------------------------------------------------------------------
(* Cascades                                                                *)

C8_Step ==
    \A id \in CascadeIds :
        (last' # last /\ last'.op = "delete" /\ last'.id = id) =>
            IF id \in DOMAIN todos
            THEN /\ last'.outcome = "ok"
                 /\ \A d \in Subtree(todos, id) :
                        /\ d \notin DOMAIN todos'
                        /\ \A a \in DOMAIN attachments' : attachments'[a].todo_id # d
            ELSE /\ last'.outcome = "not_found"
                 /\ UNCHANGED <<todos, categories, attachments, files, next_id>>

\* C8: after a successful delete(id) neither id nor any transitive descendant of it
\* can be looked up and no attachment row of any of them remains; delete of a
\* missing id reports not found and changes nothing.
C8_DeleteCascades == [][C8_Step]_vars

\* C8's case: one delete removed a todo, its child and its grandchild, and the
\* attachment rows they owned
C8_Witness ==
    /\ last.op = "delete"
    /\ last.outcome = "ok"
    /\ Cardinality(last.gone_todos) = 3
    /\ Cardinality(last.gone_atts) = 2
    /\ todos = EmptyTable
    /\ attachments = EmptyTable

C9_Step ==
    (last' # last /\ last'.op = "delete" /\ last'.outcome = "ok") =>
        \A a \in DOMAIN attachments \ DOMAIN attachments' :
            attachments[a].filename \notin DOMAIN files'

\* C9: deleting a todo also deletes the backing file of every attachment row the
\* cascade removes: afterwards the attachments directory holds none of those files.
C9_DeleteRemovesFiles == [][C9_Step]_vars

C10_Step ==
    \A c \in categories :
        (last' # last /\ last'.op = "category_delete" /\ last'.id = c) =>
            /\ DOMAIN todos' = DOMAIN todos
            /\ \A t \in DOMAIN todos :
                    todos'[t] = IF todos[t].category_id = c
                                THEN [todos[t] EXCEPT !.category_id = Null]
                                ELSE todos[t]

\* C10: deleting a category deletes no todo: every todo that referenced it still
\* exists afterwards with category_id null and its other fields unchanged.
C10_CategoryDeleteKeepsTodos == [][C10_Step]_vars

-----------------------------------------------------------------------------
(* Attachment ingestion                                                    *)

\* A call of op took this step (a repeated rejected call changes nothing at all)
Called(op) == last'.op = op /\ <<last, next_id>>' # <<last, next_id>>

C11_Step ==
    Called("save_attachment") =>
        LET id == next_id.att
            file_path == NewAttachment(id, last'.arg, last'.data.upload).filename
        IN /\ id \in DOMAIN attachments' <=> file_path \in DOMAIN files'
           /\ last'.outcome = "write_failed" => id \notin DOMAIN attachments'
           /\ last'.outcome = "ok" <=> id \in DOMAIN attachments'

\* C11: however save_attachment ends (validation error, todo not found, failed disk
\* write, success), the attachment row and the backing file both exist or both do
\* not; after a failed disk write the inserted row is gone.
C11_RowAndFileTogether == [][C11_Step]_vars

C12_Step ==
    (Called("upload_attachment") /\ last'.outcome = "rolled_back") =>
        last'.id \notin DOMAIN files'

\* C12: when the request is rolled back after save_attachment wrote the file, the
\* file is deleted by the time the request has finished: no file stays on disk
\* without a committed attachment row.
C12_RollbackDeletesFile == [][C12_Step]_vars

\* The stages of the pipeline, each on its own
SizeOk(f) == f.content.size <= max_upload_size_bytes
NameOk(f) == _sanitize_filename(f.name) # ""
ExtensionOk(f) == suffix_lower(_sanitize_filename(f.name)) \in allowed_file_extensions
ContentOk(f) == _validate_content(f.content, suffix_lower(_sanitize_filename(f.name)))

C13_Step ==
    Called("save_attachment") =>
        LET f == last'.data.upload
            o == last'.outcome
        IN /\ o = "too_large" <=> ~SizeOk(f)
           /\ o = "invalid_filename" <=> SizeOk(f) /\ ~NameOk(f)
           /\ o \in {"no_extension", "type_not_allowed"} <=>
                    SizeOk(f) /\ NameOk(f) /\ ~ExtensionOk(f)
           /\ o = "content_mismatch" <=>
                    SizeOk(f) /\ NameOk(f) /\ ExtensionOk(f) /\ ~ContentOk(f)
           /\ o = "not_found" <=>
                    /\ SizeOk(f) /\ NameOk(f) /\ ExtensionOk(f) /\ ContentOk(f)
                    /\ last'.arg \notin DOMAIN todos
           /\ o # "ok" => /\ attachments' = attachments
                          /\ files' = files

\* C13: save_attachment runs size check, filename sanitization, extension
\* allow-list, content check, owner existence and persist in this order; the first
\* stage that fails decides the outcome (an invalid file for a missing todo is a
\* validation error, not "not found"), and no failing stage leaves a row or a file.
C13_StagesInOrder == [][C13_Step]_vars

\* The buffer has the bytes of sig at offset
CarriesAt(content, sig, offset) ==
    \A i \in 1..Len(sig) :
        /\ offset + i - 1 < content.size
        /\ ByteAt(content, offset + i - 1) = sig[i]

\* The buffer carries a signature of the extension where the extension has it
CarriesSignature(content, extension) ==
    \E k \in 1..Len(MAGIC_BYTES[extension]) :
        LET sig == MAGIC_BYTES[extension][k]
        IN CASE extension = ".tar" -> CarriesAt(content, sig, 257)
             [] extension = ".webp" -> CarriesAt(content, sig, 0) /\ CarriesAt(content, WEBP, 8)
             [] OTHER -> CarriesAt(content, sig, 0)

C14_Step ==
    \A op \in {"save_attachment", "upload_attachment"} :
        (/\ Called(op)
         /\ last'.outcome # "payload_too_large"
         /\ SizeOk(last'.data.upload) /\ NameOk(last'.data.upload)
         /\ ExtensionOk(last'.data.upload)) =>
            LET f == last'.data.upload
                ext == suffix_lower(_sanitize_filename(f.name))
            IN /\ ext \in DOMAIN MAGIC_BYTES =>
                    (last'.outcome # "content_mismatch" <=> CarriesSignature(f.content, ext))
               /\ ext \in TEXT_EXTENSIONS => last'.outcome # "content_mismatch"
               /\ last'.outcome = "content_mismatch" =>
                    /\ last'.data.status = 400
                    /\ attachments' = attachments
                    /\ files' = files

\* C14: an upload whose extension has a signature passes the content check exactly
\* when the buffer carries one of the extension's signatures at its offset (0; 257
\* for .tar; RIFF at 0 and WEBP at 8 for .webp); text extensions pass unchecked; a
\* mismatch is answered with 400 and leaves no row and no file.
C14_ContentCheck == [][C14_Step]_vars

\* C14's case: a .webp upload that starts with RIFF but has no WEBP at offset 8 was
\* rejected by the route
C14_Witness ==
    /\ last.op = "upload_attachment"
    /\ last.outcome = "content_mismatch"
    /\ last.data.upload.name = "pic.webp"
    /\ CarriesAt(last.data.upload.content, MAGIC_BYTES[".webp"][1], 0)
    /\ last.data.upload.content.size >= 12
    /\ attachments = EmptyTable
    /\ files = EmptyTable

C15_Step ==
    /\ (Called("upload_attachment") /\ last'.data.upload.name # "") =>
        /\ last'.outcome = "payload_too_large" <=>
                last'.data.upload.content.size > max_upload_size_bytes
        /\ last'.outcome = "payload_too_large" =>
                /\ last'.data.status = 413
                /\ attachments' = attachments
                /\ files' = files
    /\ Called("save_attachment") =>
        /\ last'.outcome = "too_large" <=>
                last'.data.upload.content.size > max_upload_size_bytes
        /\ last'.outcome = "too_large" =>
                /\ attachments' = attachments
                /\ files' = files

\* C15: an upload (with a filename) is rejected as too large (413 by the route,
\* FileValidationError by the service) exactly when the file is longer than
\* max_upload_size_bytes (a file of exactly that length is accepted), before any row
\* is inserted or byte written.
C15_SizeLimit == [][C15_Step]_vars

-----------------------------------------------------------------------------
(* The attachment store                                                    *)

C16_Step ==
    \A a \in StoreAttIds :
        \* the upload stores the buffer it was given
        /\ (a \notin DOMAIN attachments /\ a \in DOMAIN attachments') =>
                /\ a \in DOMAIN sent'
                /\ attachments'[a].filename \in DOMAIN files'
                /\ files'[attachments'[a].filename] = sent'[a].content
        \* whatever is done to other attachments leaves it as it is
        /\ (/\ a \in DOMAIN attachments
            /\ attachments[a].filename \in DOMAIN files
            /\ ~(last'.op = "delete_attachment" /\ last'.id = a)) =>
                /\ a \in DOMAIN attachments'
                /\ attachments'[a] = attachments[a]
                /\ attachments[a].filename \in DOMAIN files'
                /\ files'[attachments[a].filename] = files[attachments[a].filename]
        \* the download returns the buffer that was uploaded, and the stored type
        /\ (/\ last'.op = "get_attachment" /\ last'.id = a
            /\ a \in DOMAIN attachments
            /\ attachments[a].filename \in DOMAIN files) =>
                /\ last'.outcome = "ok"
                /\ last'.data.content = sent[a].content
                /\ last'.data.mime_type = attachments[a].mime_type
                /\ last'.data.mime_type =
                        IF sent[a].mime_type # "" THEN sent[a].mime_type
                        ELSE guess_type(attachments[a].original_name)

\* C16: round trip.  An accepted upload of the buffer B stores an attachment, and a
\* later download of it returns exactly B with the stored MIME type, whatever other
\* uploads and deletions of other attachments happened in between.
C16_RoundTrip == [][C16_Step]_vars

\* C16's case: the first attachment was just downloaded as it was uploaded, after a
\* second one had been uploaded and deleted and a third one uploaded
C16_Witness ==
    /\ last.op = "get_attachment"
    /\ last.id = 1
    /\ last.outcome = "ok"
    /\ 1 \in DOMAIN sent
    /\ last.data.content = sent[1].content
    /\ 2 \in DOMAIN sent /\ 2 \notin DOMAIN attachments
    /\ 3 \in DOMAIN attachments
    /\ sent[3].content # sent[1].content

C17_Step ==
    \A a \in StoreAttIds \cup {MaxStoreAtts + 1} :
        (last'.op = "get_attachment" /\ last'.id = a) =>
            /\ IF a \in DOMAIN attachments /\ attachments[a].filename \in DOMAIN files
               THEN /\ last'.outcome = "ok"
                    /\ last'.data.content = files[attachments[a].filename]
                    /\ last'.data.mime_type = attachments[a].mime_type
                    /\ last'.data.status = 200
               ELSE /\ last'.outcome = "not_found"
                    /\ last'.data.status = 404
            /\ attachments' = attachments
            /\ files' = files

\* C17: get_attachment returns the record and the file's bytes when the row and the
\* file both exist, reports not found when the row is missing or the row's file is
\* missing, and changes neither rows nor files.
C17_GetAttachment == [][C17_Step]_vars

\* C17's case: a download was answered not found for a row whose file is missing
C17_Witness ==
    /\ last.op = "get_attachment"
    /\ last.outcome = "not_found"
    /\ last.id \in DOMAIN attachments
    /\ attachments[last.id].filename \notin DOMAIN files

C18_Step ==
    \A a \in StoreAttIds :
        (Called("delete_attachment") /\ last'.id = a) =>
            IF a \notin DOMAIN attachments
            THEN /\ last'.outcome = "not_found"
                 /\ attachments' = attachments
                 /\ files' = files
            ELSE last'.outcome # "rolled_back" =>
                    /\ last'.outcome = "ok"
                    /\ a \notin DOMAIN attachments'

\* C18: delete_attachment of a missing id reports not found and changes nothing;
\* otherwise it removes the file if there is one, ignoring a disk error of the
\* removal, and deletes the row, so that the attachment is not found afterwards
\* (what a request whose commit fails leaves behind is not part of this statement).
C18_DeleteAttachment == [][C18_Step]_vars

-----------------------------------------------------------------------------
(* The priority cache                                                      *)

\* C19: a get_all that starts after an update was committed returns that update's
\* values (or newer ones), whatever the remaining TTL and whatever refill was in
\* flight while the update ran.
C19_ReadsAfterUpdateAreFresh ==
    \A t \in Tasks :
        (task[t].kind = "get_all" /\ task[t].pc = "done") => task[t].data >= task[t].floor

\* C20: concurrent get_or_fetch calls on an empty or expired cache, with no
\* invalidate: never two fetches in flight, fetch_func is called once, and every
\* caller returns the value that one call fetched.
C20_OneFetch ==
    /\ Cardinality({t \in Tasks : task[t].pc \in {"fetching", "fetched"}}) <= 1
    /\ Cardinality({t \in Tasks : task[t].fetched}) <= 1
    /\ \A t \in Tasks : task[t].pc = "done" =>
            /\ task[t].data = priorities.committed
            /\ \E u \in Tasks : task[u].fetched /\ task[u].data = task[t].data
    /\ (\A t \in Tasks : task[t].pc = "done") =>
            Cardinality({t \in Tasks : task[t].fetched}) = 1

\* C20's case: every caller has returned, after time has passed; one fetched and one
\* found the value at the double-check inside the lock
C20_Witness ==
    /\ \A t \in Tasks : task[t].pc = "done"
    /\ \E t \in Tasks : task[t].via = "fetch"
    /\ \E t \in Tasks : task[t].via = "recheck"
    /\ now > 1

-----------------------------------------------------------------------------
(* Deletion of an attachment and the transaction around it                 *)

C30_Step ==
    \A a \in StoreAttIds :
        (/\ a \in DOMAIN attachments
         /\ attachments[a].filename \in DOMAIN files
         /\ attachments[a].filename \notin DOMAIN files') =>
            a \notin DOMAIN attachments'

\* C30: an attachment's file is removed from disk only if the deletion of its row is
\* committed: after delete_attachment in a transaction that is rolled back, the row
\* and the file are both still there.
C30_FileRemovedOnlyWithRow == [][C30_Step]_vars

-----------------------------------------------------------------------------
(* get_or_fetch when fetch_func raises                                     *)

\* The callers whose fetch_func raised
Failed == {t \in Tasks : task[t].pc = "failed"}

C28_Safe ==
    /\ lock \notin Failed
    /\ lock # Null => task[lock].pc \in {"fetching", "fetched"}
    /\ cache.data \in {Null, 1, priorities.committed}
    /\ (cache.data = priorities.committed) =>
            \E t \in Tasks : task[t].pc = "done" /\ task[t].via = "fetch"
    /\ \A t \in Tasks : task[t].pc = "done" => task[t].data = priorities.committed

C28_Step ==
    \A t \in Tasks :
        (task[t].pc # "failed" /\ task'[t].pc = "failed") =>
            /\ task[t].fetched
            /\ cache' = cache
            /\ lock = t /\ lock' = Null

\* C28: when fetch_func raises inside get_or_fetch the exception reaches that caller,
\* the lock is released and the cache is left as it was (nothing of the failed call
\* is cached), and every caller that is waiting eventually returns a value it or
\* another caller fetched, or gets the exception of its own fetch: none waits forever.
C28_FetchFailureContained ==
    /\ []C28_Safe
    /\ [][C28_Step]_vars
    /\ \A t \in Tasks : (task[t].pc \in {"fast", "wait"}) ~> (task[t].pc \in {"done", "failed"})

\* C28's case: a fetch failed, a caller that waited then ran its own fetch, and a
\* third one found that value at the double-check
C28_Witness ==
    /\ Failed # {}
    /\ \E t \in Tasks : task[t].pc = "done" /\ task[t].via = "fetch"
    /\ \E t \in Tasks : task[t].pc = "done" /\ task[t].via = "recheck"
    /\ lock = Null

-----------------------------------------------------------------------------
(* Seeding of the priority levels                                          *)

C21_Step ==
    (last'.op = "seed_defaults" /\ <<last, priorities, cache>>' # <<last, priorities, cache>>) =>
        IF DOMAIN priorities.rows = {}
        THEN /\ DOMAIN priorities'.rows = 1..10
             /\ \A level \in 1..10 : priorities'.rows[level] = DEFAULT_PRIORITY_NAMES[level]
             /\ AsyncCache_get(cache', now') = Null
             /\ cache' = InvalidCache
        ELSE /\ priorities' = priorities
             /\ cache' = cache

\* C21: seed_defaults inserts exactly the levels 1..10 with their default names when
\* the table is empty and leaves the cache invalidated; when a level exists it
\* inserts and changes nothing, whatever the cache holds (so a second call changes
\* nothing, and customised names survive a restart).
C21_SeedOnce == [][C21_Step]_vars

\* C21's case: after a restart, seed_defaults found a table with a customised name
\* and an empty cache, and left the table as it was
C21_Witness ==
    /\ last.op = "seed_defaults"
    /\ last.outcome = "exists"
    /\ DOMAIN priorities.rows = 1..10
    /\ \E level \in 1..10 : priorities.rows[level] # DEFAULT_PRIORITY_NAMES[level]
    /\ cache = InvalidCache

-----------------------------------------------------------------------------
(* The hierarchy walks                                                     *)

\* Following parent_id from id comes back to a todo already passed
LeadsToCycle(T, id) ==
    \E c \in DOMAIN T :
        /\ c = id \/ IsDescendant(T, id, c)
        /\ IsDescendant(T, c, c)

\* The result of the upward walk of _would_create_cycle taken alone
UpwardAlone(T, todo_id, new_parent_id) ==
    todo_id = new_parent_id \/ UpwardWalk(T, new_parent_id, {todo_id})

\* C26 as stated: where the proposed parent is below todo_id with a todo in between,
\* the upward walk from the proposed parent does not reach todo_id, and only the
\* descendant traversal makes _would_create_cycle answer true.
C26_BothChecksNecessary ==
    (/\ last.op = "_would_create_cycle"
     /\ last.arg \in DOMAIN todos
     /\ IsDescendant(todos, last.arg, last.id)
     /\ todos[last.arg].parent_id # last.id)
        => /\ ~UpwardAlone(todos, last.id, last.arg)
           /\ last.outcome = "true"

\* C26, amended: on every stored parent_id table the result of _would_create_cycle
\* is the result of its upward walk alone; whenever the proposed parent is among the
\* descendants of todo_id the upward walk from it reaches todo_id.
C26_UpwardWalkDecides ==
    last.op = "_would_create_cycle" =>
        /\ (last.outcome = "true") = UpwardAlone(todos, last.id, last.arg)
        /\ (last.arg = last.id \/ IsDescendant(todos, last.arg, last.id))
                => last.outcome = "true"

\* C26's case: the proposed parent is below todo_id with a todo in between
C26_Witness ==
    /\ last.op = "_would_create_cycle"
    /\ last.outcome = "true"
    /\ last.arg \in DOMAIN todos
    /\ last.arg # last.id
    /\ IsDescendant(todos, last.arg, last.id)
    /\ todos[last.arg].parent_id # last.id
    /\ Acyclic(todos)

\* C27 as stated: on an acyclic chain _get_parent_depth returns the number of parent
\* edges from node to its root, and on a cyclic chain it fails with the
\* circular-reference error.
C27_ParentDepthOnEveryGraph ==
    last.op = "_get_parent_depth" =>
        /\ ReachesRoot(todos, last.id, Cardinality(DOMAIN todos)) =>
                /\ last.outcome = "ok"
                /\ last.ret = DepthOf(todos, last.id)
        /\ LeadsToCycle(todos, last.id) => last.outcome = "circular"

\* C27, amended: _get_parent_depth ends on every stored parent_id table; on an
\* acyclic chain of at most max_subtask_depth + 10 parent edges it returns the number
\* of edges from node to its root (0 for a root); on a longer acyclic chain and on a
\* cyclic chain it fails with the circular-reference error.
C27_ParentDepthBounded ==
    last.op = "_get_parent_depth" =>
        /\ last.outcome \in {"ok", "circular"}
        /\ ReachesRoot(todos, last.id, Cardinality(DOMAIN todos)) =>
                IF DepthOf(todos, last.id) <= WalkLimit
                THEN last.outcome = "ok" /\ last.ret = DepthOf(todos, last.id)
                ELSE last.outcome = "circular"
        /\ LeadsToCycle(todos, last.id) => last.outcome = "circular"

\* C27's case: the walk was stopped on a cyclic chain
C27_Witness ==
    /\ last.op = "_get_parent_depth"
    /\ last.outcome = "circular"
    /\ LeadsToCycle(todos, last.id)

-----------------------------------------------------------------------------
(* API key authentication                                                  *)

\* The request that is answered in this step supplies the configured key
SuppliesKey == http'.header_key = settings.api_key \/ http'.query_key = settings.api_key

\* The request that is answered in this step was stopped before its handler
Stopped(statuses) ==
    /\ http'.status \in statuses
    /\ UNCHANGED <<todos, next_id, last>>

\* The request that is answered in this step reached its handler
Admitted == http'.status \in {200, 201, 400, 404}

C25_AsStated ==
    http' # http =>
        /\ (settings.api_key # NoKey /\ ~SuppliesKey) => Stopped({HTTP_401_UNAUTHORIZED})
        /\ settings.api_key = NoKey => Admitted

\* C25 as stated: when an API key is configured, every request to a route under
\* /api that does not supply the configured key is rejected with 401 before any
\* service operation runs; when no key is configured every request is admitted.
C25_KeyRequired == [][C25_AsStated]_vars

C25_Step ==
    http' # http =>
        /\ (settings.api_key # NoKey /\ ~settings.is_homeassistant /\ ~SuppliesKey) =>
                /\ Stopped({HTTP_401_UNAUTHORIZED, HTTP_500_INTERNAL_SERVER_ERROR})
                /\ http'.status = HTTP_500_INTERNAL_SERVER_ERROR =>
                        \E k \in {settings.api_key, http'.header_key, http'.query_key} :
                            k # NoKey /\ \E i \in DOMAIN k : k[i] > 127
        /\ (settings.api_key = NoKey \/ settings.is_homeassistant) => Admitted

\* C25, amended: when an API key is configured and the process does not run inside
\* Home Assistant, every request to a route under /api that does not supply the
\* configured key is stopped before any service operation runs, with 401, or with
\* 500 when a key with a character outside ASCII is compared; when no key is
\* configured, or inside Home Assistant, every request is admitted.
C25_KeyRequiredOutsideHomeAssistant == [][C25_Step]_vars

\* C25's case: with a key configured outside Home Assistant, a request with a wrong
\* key was answered 401 after a request with the right key had created a todo
C25_Witness ==
    /\ settings.api_key \notin {NoKey, <<>>}
    /\ ~settings.is_homeassistant
    /\ http.status = HTTP_401_UNAUTHORIZED
    /\ http.header_key \notin {NoKey, settings.api_key}
    /\ http.query_key # settings.api_key
    /\ DOMAIN todos # {}

-----------------------------------------------------------------------------
(* The fields of a todo                                                    *)

\* The step is a call of op that was given the tag ids of last'.raw
GivenTags(ops) ==
    /\ last'.op \in ops
    /\ last' # last \/ todos' # todos
    /\ "tag_ids" \in last'.raw.fields
    /\ last'.raw.tag_ids # NoTagIds

\* The parent that create was given is one it accepts
ParentAccepted(p) ==
    p = Null \/ (p \in DOMAIN todos /\ DepthOf(todos, p) + 1 <= max_subtask_depth)

C22_Step ==
    /\ (GivenTags({"create"}) /\ last'.raw.tag_ids \ tags # {}) =>
            /\ last'.outcome # "ok"
            /\ ParentAccepted(last'.arg) =>
                    /\ last'.outcome = "tags_not_found"
                    /\ last'.data.missing_ids = last'.raw.tag_ids \ tags
            /\ todos' = todos
            /\ next_id' = next_id
    /\ (/\ GivenTags({"update"})
        /\ last'.id \in DOMAIN todos
        /\ last'.raw.tag_ids \ tags # {}) =>
            /\ last'.outcome = "tags_not_found"
            /\ last'.data.missing_ids = last'.raw.tag_ids \ tags
            /\ todos' = todos
    /\ (GivenTags({"create", "update"}) /\ last'.outcome = "ok") =>
            /\ last'.id \in DOMAIN todos'
            /\ todos'[last'.id].tags = last'.raw.tag_ids

\* C22: if any tag id given to create or update does not exist, the operation fails
\* with the error that lists the missing ids (create, when the parent it was given
\* is accepted); create then persists no todo and update leaves the tags and every
\* other field of the todo unchanged. When every tag id exists the todo gets exactly
\* the given tags.
C22_TagsAllOrNothing == [][C22_Step]_vars

\* C22's case: an update that named a tag that exists and one that does not was
\* refused, and the todo has the tags it was created with
C22_Witness ==
    /\ last.op = "update"
    /\ last.outcome = "tags_not_found"
    /\ last.id \in DOMAIN todos
    /\ last.raw.tag_ids \cap tags # {}
    /\ last.data.missing_ids # {}
    /\ todos[last.id].tags # {}
    /\ Cardinality(last.raw.fields) > 1

\* The request field that sets the column k (parent_id is set by none)
FieldOf(k) ==
    CASE k = "tags" -> "tag_ids"
      [] k = "completed_at" -> "completed"
      [] OTHER -> k

C24_Step ==
    (/\ last'.op = "update"
     /\ last'.outcome = "ok"
     /\ last' # last \/ todos' # todos) =>
        /\ last'.id \in DOMAIN todos
        /\ \A k \in DOMAIN todos[last'.id] \ {"updated_at"} :
                FieldOf(k) \notin last'.raw.fields =>
                    todos'[last'.id][k] = todos[last'.id][k]
        /\ todos'[last'.id].updated_at = now
        /\ \A other \in DOMAIN todos \ {last'.id} : todos'[other] = todos[other]
        /\ DOMAIN todos' = DOMAIN todos

-----------------------------------------------------------------------------
(* Listing                                                                 *)

\* The root todos that satisfy every filter that q gives
MatchingRoots(q) ==
    {id \in DOMAIN todos :
        /\ todos[id].parent_id = Null
        /\ q.category_id = Null \/ todos[id].category_id = q.category_id
        /\ q.tag_id = Null \/ q.tag_id \in todos[id].tags
        /\ q.priority_min = Null \/ todos[id].priority >= q.priority_min
        /\ q.priority_max = Null \/ todos[id].priority <= q.priority_max
        /\ q.completed = "null" \/ todos[id].completed = (q.completed = "true")
        /\ q.due_before = Null
                \/ (todos[id].due_date # Null /\ todos[id].due_date <= q.due_before)
        /\ q.due_after = Null
                \/ (todos[id].due_date # Null /\ todos[id].due_date >= q.due_after)}

\* b may follow a: lower priority, or the same priority and a later or no due date
MayFollow(a, b) ==
    \/ a.priority > b.priority
    \/ /\ a.priority = b.priority
       /\ \/ b.due_date = Null
          \/ a.due_date # Null /\ a.due_date <= b.due_date

\* C23: get_all with no parent_id returns only root todos that satisfy every given
\* filter, ordered by descending priority, then ascending due date with null due
\* dates last; a page holds at most page_size items (page >= 1, page_size >= 1), and
\* the total is the number of matching root todos whatever page and page_size are.
C23_ListRoots ==
    (last.op = "get_all" /\ last.data.query.parent_id = Null) =>
        LET q == last.data.query
            items == last.data.items
        IN /\ \A i \in DOMAIN items : items[i] \in MatchingRoots(q)
           /\ \A i, j \in DOMAIN items : i # j => items[i] # items[j]
           /\ \A i \in DOMAIN items :
                    i + 1 \in DOMAIN items => MayFollow(todos[items[i]], todos[items[i + 1]])
           /\ Len(items) <= q.page_size
           /\ last.data.total = Cardinality(MatchingRoots(q))

\* C23's case: a list filtered by tag over two roots and a subtask that all carry
\* the tag; the second page of size one holds the root of lower priority
C23_Witness ==
    /\ last.op = "get_all"
    /\ last.data.query.tag_id # Null
    /\ last.data.query.page = 2
    /\ last.data.query.page_size = 1
    /\ Len(last.data.items) = 1
    /\ last.data.total = 2
    /\ \E id \in DOMAIN todos :
            /\ todos[id].parent_id = Null
            /\ last.data.query.tag_id \in todos[id].tags
            /\ todos[id].priority > todos[last.data.items[1]].priority
    /\ \E id \in DOMAIN todos :
            /\ todos[id].parent_id # Null
            /\ last.data.query.tag_id \in todos[id].tags

-----------------------------------------------------------------------------
(* Concurrent create and delete                                            *)

\* C29: under any interleaving of concurrent requests, every committed todo with a
\* non-null parent_id refers to a todo that exists.
C29_NoOrphanChild ==
    \A id \in DOMAIN todos :
        todos[id].parent_id # Null => todos[id].parent_id \in DOMAIN todos

====
